---------------------------- MODULE Spec2Model ----------------------------
(***************************************************************************)
(* Model of the punchcard digitizer (src/src/main.ts): the PunchcardDigitizer *)
(* class with its event handlers, its deferred callbacks (debounce timer,  *)
(* animation frame) and the detection pipeline behind autoDetect.          *)
(*                                                                         *)
(* Real numbers.  The program computes in IEEE doubles.  Here every real   *)
(* is a fixed-point integer counting millionths (Q units per pixel, per    *)
(* grid unit, per unit of a spline parameter).  Products and quotients are *)
(* computed limb-wise so that no intermediate value leaves 32 bits.  The   *)
(* model therefore agrees with the program up to about 1e-5 (chord lengths *)
(* carry four to five significant digits); a property that is settled by a *)
(* smaller difference is checked on inputs for which every intermediate    *)
(* value is exact in the model.                                            *)
(***************************************************************************)
EXTENDS Integers, Sequences, FiniteSets, TLC

\* null and undefined: every nullable field holds NULL or a non-empty sequence
\* (Some(v) for a scalar or a record).
NULL == <<>>
Some(v) == <<v>>
The(o) == o[1]

(***************************************************************************)
(* Fixed-point arithmetic                                                  *)
(***************************************************************************)
\* Q: fixed-point units per unit (the resolution of the model's reals).
Q == 1000 * 1000

Abs(a) == IF a < 0 THEN -a ELSE a
Min(a, b) == IF a < b THEN a ELSE b
Max(a, b) == IF a > b THEN a ELSE b

\* Real(n): the integer n as a fixed-point real.
Real(n) == n * Q

\* a * b for two fixed-point reals (floor of the exact product).
FMul(a, b) ==
    LET a1 == a \div 1000
        a0 == a % 1000
        b1 == b \div 1000
        b0 == b % 1000
    IN  a1 * b1 + ((a1 * b0 + a0 * b1 + ((a0 * b0) \div 1000)) \div 1000)

\* Long division, digit by digit: floor(r * 10^k / b) for 0 <= r < b.
RECURSIVE FracDigits(_, _, _, _)
FracDigits(r, b, k, acc) ==
    IF k = 0 THEN acc
    ELSE FracDigits((r * 10) % b, b, k - 1, acc * 10 + ((r * 10) \div b))

\* a / b for two fixed-point reals, b # 0 (floor of the exact quotient).
FDiv(a, b) ==
    LET s  == IF b < 0 THEN -1 ELSE 1
        n  == s * a
        d  == s * b
    IN  (n \div d) * Q + FracDigits(n % d, d, 6, 0)

\* n / d for two integers as a fixed-point real, d > 0.
Ratio(n, d) == (n \div d) * Q + FracDigits(n % d, d, 6, 0)

\* Math.floor, Math.ceil and Math.round (half up) of a fixed-point real,
\* as integers.
Floor(a) == a \div Q
Ceil(a) == -((-a) \div Q)
Round(a) == (a + (Q \div 2)) \div Q

\* Integer square root by bisection on the bits of the result.
RECURSIVE SqrtBits(_, _, _)
SqrtBits(n, r, bit) ==
    IF bit = 0 THEN r
    ELSE LET c == r + bit
         IN  SqrtBits(n, IF c <= 46340 /\ c * c <= n THEN c ELSE r, bit \div 2)

\* The least power of 4 that brings m into 15 bits.
RECURSIVE HypotScale(_, _)
HypotScale(m, k) == IF m \div k <= 30000 THEN k ELSE HypotScale(m, 4 * k)

\* Math.sqrt(dx * dx + dy * dy) for two fixed-point reals.  The operands are
\* brought into 15 bits first, so the result carries 4 to 5 significant
\* digits.
Hypot(dx, dy) ==
    LET k == HypotScale(Max(Abs(dx), Abs(dy)), 1)
        a == Abs(dx) \div k
        b == Abs(dy) \div k
    IN  SqrtBits(a * a + b * b, 0, 32768) * k

(***************************************************************************)
(* Splines (lines 19-123).  A Corner is [x |-> real, y |-> real].          *)
(***************************************************************************)
Pt(px, py) == [x |-> px, y |-> py]

\* One coordinate of a Catmull-Rom segment.
CatmullRomCoord(c0, c1, c2, c3, t) ==
    LET t2 == FMul(t, t)
        t3 == FMul(t2, t)
    IN  (2 * c1
         + FMul(c2 - c0, t)
         + FMul(2 * c0 - 5 * c1 + 4 * c2 - c3, t2)
         + FMul(3 * c1 - c0 - 3 * c2 + c3, t3)) \div 2

catmullRomPoint(p0, p1, p2, p3, t) ==
    Pt(CatmullRomCoord(p0.x, p1.x, p2.x, p3.x, t),
       CatmullRomCoord(p0.y, p1.y, p2.y, p3.y, t))

\* The Catmull-Rom segment with the end points repeated as phantom points.
SplineSegmentClamped(points, n, seg, localT) ==
    catmullRomPoint(points[Max(seg, 1)], points[seg + 1], points[seg + 2],
                    points[Min(seg + 3, n)], localT)

\* The Catmull-Rom segment seg of points at localT, with the phantom end
\* points of lines 58-68.  n = Len(points) >= 3.
SplineSegment(points, n, seg, localT) ==
    catmullRomPoint(
        IF seg > 0 THEN points[seg]
        ELSE Pt(2 * points[seg + 1].x - points[seg + 2].x,
                2 * points[seg + 1].y - points[seg + 2].y),
        points[seg + 1],
        points[seg + 2],
        IF seg + 2 < n THEN points[seg + 3]
        ELSE Pt(2 * points[seg + 2].x - points[seg + 1].x,
                2 * points[seg + 2].y - points[seg + 1].y),
        localT)

\* points is a sequence of Corners (1-based; points[k + 1] is the code's
\* points[k]); t is a fixed-point real.
evaluateSplineRaw(points, t) ==
    LET n == Len(points) IN
    IF n < 2 THEN (IF n = 1 THEN points[1] ELSE Pt(0, 0))
    ELSE IF n = 2 THEN
        Pt(points[1].x + FMul(t, points[2].x - points[1].x),
           points[1].y + FMul(t, points[2].y - points[1].y))
    ELSE
        LET scaledT == Max(0, Min(Q, t)) * (n - 1)
            seg     == Min(Floor(scaledT), n - 2)
        IN  SplineSegment(points, n, seg, scaledT - Real(seg))

\* Running sums of a sequence, by doubling the stride: after the pass with
\* stride d, acc[i] is the sum of the last min(i, 2d) terms ending at i.
RECURSIVE PrefixSums(_, _)
PrefixSums(acc, stride) ==
    IF stride >= Len(acc) THEN acc
    ELSE LET next == [i \in 1..Len(acc) |->
                        acc[i] + (IF i > stride THEN acc[i - stride] ELSE 0)]
         IN  IF next = acc THEN acc ELSE PrefixSums(next, 2 * stride)

\* The lengths of the chords between consecutive samples.
Chords(samples) ==
    [i \in 1..(Len(samples) - 1) |->
        Hypot(samples[i + 1].x - samples[i].x,
              samples[i + 1].y - samples[i].y)]

\* table[i] = table[i - 1] + chord(i); the result's entry k + 1 is the
\* code's table[k], for k = 0..n.
buildArcLengthTable(points, n) ==
    <<0>> \o PrefixSums(Chords([k \in 1..(n + 1) |->
                                   evaluateSplineRaw(points, Ratio(k - 1, n))]),
                        1)

\* The binary search of evaluateSplineArcLength: the final <<lo, hi>>.
RECURSIVE ArcSearch(_, _, _, _)
ArcSearch(table, target, lo, hi) ==
    IF lo < hi - 1
    THEN LET mid == (lo + hi) \div 2
         IN  IF table[mid + 1] < target
             THEN ArcSearch(table, target, mid, hi)
             ELSE ArcSearch(table, target, lo, mid)
    ELSE <<lo, hi>>

\* Lines 115-122: the raw parameter for the bracket <<lo, hi>> of the
\* target length; n is the number of samples.
RawParameter(table, targetLength, lo, hi, n) ==
    IF table[hi + 1] - table[lo + 1] > 0
    THEN (Real(lo) + FDiv(targetLength - table[lo + 1],
                          table[hi + 1] - table[lo + 1])) \div n
    ELSE Real(lo) \div n

\* The raw parameter at which the arc length reaches targetLength.
ArcParameter(table, targetLength, lohi) ==
    RawParameter(table, targetLength, lohi[1], lohi[2], Len(table) - 1)

evaluateSplineArcLength(points, table, t) ==
    IF table[Len(table)] = 0 THEN evaluateSplineRaw(points, t)
    ELSE evaluateSplineRaw(points,
            ArcParameter(table, FMul(t, table[Len(table)]),
                ArcSearch(table, FMul(t, table[Len(table)]), 0,
                          Len(table) - 1)))

(***************************************************************************)
(* Surface map (lines 231-258, 722-846)                                    *)
(***************************************************************************)
numSamples == 200

\* The four edge point arrays of ensureEdgeArcTables: top, right, bottom,
\* left.  corners is <<tl, tr, br, bl>>; mids is NULL or four sequences.
EdgePoints(corners, mids) ==
    LET tl == corners[1]
        tr == corners[2]
        br == corners[3]
        bl == corners[4]
        m(e) == IF mids = NULL THEN <<>> ELSE mids[e]
    IN  << <<tl>> \o m(1) \o <<tr>>,
           <<tr>> \o m(2) \o <<br>>,
           <<bl>> \o m(3) \o <<br>>,
           <<tl>> \o m(4) \o <<bl>> >>

\* The four arc-length tables built from four edge point arrays.
ArcTables(pointArrays) ==
    [e \in 1..4 |-> buildArcLengthTable(pointArrays[e], numSamples)]

\* The bilinear blend of the four corners at (u, v), one coordinate.
Bilinear(u, v, tl, tr, br, bl) ==
    FMul(FMul(Q - u, Q - v), tl) + FMul(FMul(u, Q - v), tr)
    + FMul(FMul(u, v), br) + FMul(FMul(Q - u, v), bl)

\* Lines 778-794: the Coons patch from the four edge points and the
\* bilinear term (bx, by).
Coons(u, v, topPt, rightPt, botPt, leftPt, bx, by) ==
    Pt(FMul(Q - v, topPt.x) + FMul(v, botPt.x)
         + FMul(Q - u, leftPt.x) + FMul(u, rightPt.x) - bx,
       FMul(Q - v, topPt.y) + FMul(v, botPt.y)
         + FMul(Q - u, leftPt.y) + FMul(u, rightPt.y) - by)

\* The point of the surface at the normalised coordinates (u, v).
SurfacePoint(u, v, tl, tr, br, bl, mids, pointArrays, tables) ==
    IF mids = NULL \/ pointArrays = NULL \/ tables = NULL
    THEN Pt(Bilinear(u, v, tl.x, tr.x, br.x, bl.x),
            Bilinear(u, v, tl.y, tr.y, br.y, bl.y))
    ELSE Coons(u, v,
               evaluateSplineArcLength(pointArrays[1], tables[1], u),
               evaluateSplineArcLength(pointArrays[2], tables[2], v),
               evaluateSplineArcLength(pointArrays[3], tables[3], u),
               evaluateSplineArcLength(pointArrays[4], tables[4], v),
               Bilinear(u, v, tl.x, tr.x, br.x, bl.x),
               Bilinear(u, v, tl.y, tr.y, br.y, bl.y))

\* transformPoint with the state it reads made explicit: the corners, the
\* midpoints, the cached edge point arrays and arc-length tables (the
\* latter two as ensureEdgeArcTables leaves them) and the grid dimensions.
\* col and row are fixed-point reals.
transformPoint(col, row, corners, mids, pointArrays, tables, outW, outH) ==
    IF corners = NULL THEN NULL
    ELSE SurfacePoint(col \div outW, row \div outH, corners[1], corners[2],
                      corners[3], corners[4], mids, pointArrays, tables)

\* a * b / 10^8 for two fixed-point reals: their product in units of 1e-4
\* (a product of two gradients leaves 32 bits at full resolution).
FMul4(a, b) ==
    LET a1 == a \div 10000
        a0 == a % 10000
        b1 == b \div 10000
        b0 == b % 10000
    IN  a1 * b1 + ((a1 * b0 + a0 * b1 + ((a0 * b0) \div 10000)) \div 10000)

\* a / b as a fixed-point real for two numbers of one unit, b # 0.
FDivWide(a, b) ==
    LET k == IF Abs(b) >= 100000000 THEN 16 ELSE 1
    IN  FDiv(a \div k, b \div k)

\* Lines 829-837: the Newton step from (u, v) for the residual (dx, dy)
\* and the gradients, as <<u, v, continue>>; a vanishing determinant ends
\* the iteration.
NewtonUpdate(u, v, dx, dy, gux, guy, gvx, gvy, det) ==
    IF det = 0 THEN <<u, v, FALSE>>
    ELSE <<u + FDivWide(FMul4(gvy, dx) - FMul4(gvx, dy), det) \div 2,
           v + FDivWide(FMul4(gux, dy) - FMul4(guy, dx), det) \div 2,
           TRUE>>

\* An iteration that stops within five pixels of the target.
NewtonStepCoarse(u, v, x, y, pt, ptU, ptV) ==
    IF Abs(x - pt.x) < 5 * Q /\ Abs(y - pt.y) < 5 * Q
    THEN <<u, v, FALSE>>
    ELSE NewtonUpdate(u, v, x - pt.x, y - pt.y,
                      (ptU.x - pt.x) * 1000, (ptU.y - pt.y) * 1000,
                      (ptV.x - pt.x) * 1000, (ptV.y - pt.y) * 1000,
                      FMul4((ptU.x - pt.x) * 1000, (ptV.y - pt.y) * 1000)
                        - FMul4((ptU.y - pt.y) * 1000, (ptV.x - pt.x) * 1000))

\* Lines 811-837: one iteration from (u, v), given the surface points at
\* (u, v), (u + du, v) and (u, v + du) for du = 0.001.
NewtonStep(u, v, x, y, pt, ptU, ptV) ==
    IF Abs(x - pt.x) < Q \div 2 /\ Abs(y - pt.y) < Q \div 2
    THEN <<u, v, FALSE>>
    ELSE NewtonUpdate(u, v, x - pt.x, y - pt.y,
                      (ptU.x - pt.x) * 1000, (ptU.y - pt.y) * 1000,
                      (ptV.x - pt.x) * 1000, (ptV.y - pt.y) * 1000,
                      FMul4((ptU.x - pt.x) * 1000, (ptV.y - pt.y) * 1000)
                        - FMul4((ptU.y - pt.y) * 1000, (ptV.x - pt.x) * 1000))

\* The Newton iteration of inverseTransformPoint at iteration iter, where
\* uv = <<u, v, continue>>: the (u, v) it ends with.
RECURSIVE NewtonIter(_, _, _, _, _, _, _, _, _, _)
NewtonIter(iter, uv, x, y, corners, mids, pointArrays, tables, outW, outH) ==
    IF iter >= 15 \/ ~uv[3] THEN <<uv[1], uv[2]>>
    ELSE NewtonIter(iter + 1,
            NewtonStep(uv[1], uv[2], x, y,
                transformPoint(uv[1] * outW, uv[2] * outH, corners, mids,
                               pointArrays, tables, outW, outH),
                transformPoint((uv[1] + (Q \div 1000)) * outW, uv[2] * outH,
                               corners, mids, pointArrays, tables, outW, outH),
                transformPoint(uv[1] * outW, (uv[2] + (Q \div 1000)) * outH,
                               corners, mids, pointArrays, tables, outW, outH)),
            x, y, corners, mids, pointArrays, tables, outW, outH)

\* Lines 839-845: outside the unit square (with a tolerance of 0.001) is
\* "outside", otherwise the grid coordinate.
GridCoordinate(uv, outW, outH) ==
    IF \/ uv[1] < -(Q \div 1000) \/ uv[1] > Q + (Q \div 1000)
       \/ uv[2] < -(Q \div 1000) \/ uv[2] > Q + (Q \div 1000)
    THEN NULL
    ELSE Some(Pt(uv[1] * outW, uv[2] * outH))

\* inverseTransformPoint: NULL ("outside") or the grid coordinate (a Corner).
\* |det| < 0.0001 is det = 0 at the resolution det is computed in.
inverseTransformPoint(x, y, corners, mids, pointArrays, tables, outW, outH) ==
    IF corners = NULL THEN NULL
    ELSE GridCoordinate(
            NewtonIter(0, <<Q \div 2, Q \div 2, TRUE>>, x, y, corners, mids,
                       pointArrays, tables, outW, outH),
            outW, outH)

(***************************************************************************)
(* Lattice finder and assigner (lines 1112-1301).  Positions are           *)
(* fixed-point reals in raster pixels; sequences are 1-based, so entry     *)
(* i + 1 of a result is the code's entry i.                                *)
(***************************************************************************)
\* Math.exp(-0.5 * d * d / (sigma * sigma)) for sigma = 2.1, the only sigma
\* a run uses (minSeparation = cellPx * 0.7 = 7, sigma = 7 * 0.3), at
\* d = 0..7 (kernelRadius = ceil(6.3) = 7).
GaussKernel(d) ==
    <<1000000, 892813, 635391, 360448, 162991, 58750, 16880, 3866>>[Abs(d) + 1]

\* Positions at the left edge of each band, i * spacing.
BandEdges(totalExtent, numExpected) ==
    LET spacing == Ratio(totalExtent, numExpected)
    IN  [i \in 1..numExpected |-> FMul(Real(i - 1), spacing)]

\* (i + 0.5) * spacing for i = 0..numExpected - 1.
UniformPositions(totalExtent, numExpected) ==
    LET spacing == Ratio(totalExtent, numExpected)
    IN  [i \in 1..numExpected |-> FMul(Real(i - 1) + (Q \div 2), spacing)]

\* The sum of the terms f[1..n] of a sequence.
RECURSIVE SumSeq(_, _, _)
SumSeq(f, n, acc) == IF acc < 0 \/ n = 0 THEN acc ELSE SumSeq(f, n - 1, acc + f[n])

\* The smoothed histogram, bins 0..histSize - 1.
Histogram(positions, histSize, kernelRadius) ==
    [b \in 0..(histSize - 1) |->
        SumSeq([k \in 1..Len(positions) |->
                   LET d == b - Round(positions[k])
                   IN  IF Abs(d) <= kernelRadius THEN GaussKernel(d) ELSE 0],
               Len(positions), 0)]

\* The local maxima in scan order (ascending bin), from bin i on.
RECURSIVE LocalMaxima(_, _, _, _)
LocalMaxima(histogram, histSize, i, peaks) ==
    IF i >= histSize - 1 THEN peaks
    ELSE LocalMaxima(histogram, histSize, i + 1,
            IF /\ histogram[i] > histogram[i - 1]
               /\ histogram[i] >= histogram[i + 1]
               /\ histogram[i] > Q \div 100
            THEN Append(peaks, [pos |-> i, value |-> histogram[i]])
            ELSE peaks)

\* peaks.sort((a, b) => b.value - a.value): a stable sort, strongest first.
RECURSIVE SortByStrength(_)
SortByStrength(peaks) ==
    IF peaks = <<>> THEN <<>>
    ELSE LET best == CHOOSE k \in 1..Len(peaks) :
                        \A j \in 1..Len(peaks) :
                            \/ peaks[k].value > peaks[j].value
                            \/ peaks[k].value = peaks[j].value /\ k <= j
             rest == [j \in 1..(Len(peaks) - 1) |->
                         IF j < best THEN peaks[j] ELSE peaks[j + 1]]
         IN  <<peaks[best]>> \o SortByStrength(rest)

\* Suppression that goes on after numExpected peaks.
RECURSIVE SuppressAll(_, _, _, _, _)
SuppressAll(peaks, k, selected, numExpected, minSeparation) ==
    IF k > Len(peaks) THEN selected
    ELSE IF \A j \in 1..Len(selected) :
                Real(Abs(selected[j] - peaks[k].pos)) >= minSeparation \div 2
         THEN SuppressAll(peaks, k + 1, Append(selected, peaks[k].pos),
                          numExpected, minSeparation)
         ELSE SuppressAll(peaks, k + 1, selected, numExpected, minSeparation)

\* Non-maximum suppression over the sorted peaks from entry k on.
RECURSIVE Suppress(_, _, _, _, _)
Suppress(peaks, k, selected, numExpected, minSeparation) ==
    IF k > Len(peaks) THEN selected
    ELSE IF \A j \in 1..Len(selected) :
                Real(Abs(selected[j] - peaks[k].pos)) >= minSeparation \div 2
         THEN LET more == Append(selected, peaks[k].pos)
              IN  IF Len(more) >= numExpected THEN more
                  ELSE Suppress(peaks, k + 1, more, numExpected, minSeparation)
         ELSE Suppress(peaks, k + 1, selected, numExpected, minSeparation)

\* The selected peaks left in the order of their strength.
ByStrength(s) == s

\* selected.sort((a, b) => a - b)
RECURSIVE SortAscending(_)
SortAscending(s) ==
    IF s = <<>> THEN <<>>
    ELSE LET least == CHOOSE k \in 1..Len(s) :
                         \A j \in 1..Len(s) : s[k] < s[j] \/ (s[k] = s[j] /\ k <= j)
             rest  == [j \in 1..(Len(s) - 1) |->
                         IF j < least THEN s[j] ELSE s[j + 1]]
         IN  <<s[least]>> \o SortAscending(rest)

\* The indexMap of interpolateMissingPositions after the detected positions
\* from entry k on: a function from 0..numExpected - 1 to NULL or
\* Some(position).
RECURSIVE IndexMap(_, _, _, _, _)
IndexMap(detected, k, indexMap, numExpected, expectedSpacing) ==
    IF k > Len(detected) THEN indexMap
    ELSE
      LET pos       == detected[k]
          approxIdx == Round(FDiv(pos, expectedSpacing) - (Q \div 2))
          idx       == Max(0, Min(numExpected - 1, approxIdx))
          expected  == FMul(Real(idx) + (Q \div 2), expectedSpacing)
          existing  == indexMap[idx]
          next      == IF existing = NULL
                          \/ Abs(pos - expected) < Abs(The(existing) - expected)
                       THEN [indexMap EXCEPT ![idx] = Some(pos)]
                       ELSE indexMap
      IN  IndexMap(detected, k + 1, next, numExpected, expectedSpacing)

\* The nearest filled index below i (the code's downward scan), or -1.
PrevIdx(indexMap, i) ==
    LET before == {j \in 0..(i - 1) : indexMap[j] # NULL}
    IN  IF before = {} THEN -1
        ELSE CHOOSE j \in before : \A m \in before : m <= j

\* The nearest filled index above i (the code's upward scan), or -1.
NextIdx(indexMap, i, numExpected) ==
    LET after == {j \in (i + 1)..(numExpected - 1) : indexMap[j] # NULL}
    IN  IF after = {} THEN -1
        ELSE CHOOSE j \in after : \A m \in after : j <= m

\* result[i] where a gap between two detections is filled from the lower
\* one alone.
FillEntryFromBelow(indexMap, i, prevIdx, nextIdx, expectedSpacing) ==
    IF indexMap[i] # NULL THEN The(indexMap[i])
    ELSE IF prevIdx >= 0 THEN
        The(indexMap[prevIdx]) + (i - prevIdx) * expectedSpacing
    ELSE IF nextIdx >= 0 THEN
        The(indexMap[nextIdx]) - (nextIdx - i) * expectedSpacing
    ELSE FMul(Real(i) + (Q \div 2), expectedSpacing)

\* result[i]: the detected position, or the interpolation between the
\* nearest detected neighbours, or the extrapolation from the only side
\* that has one.
FillEntry(indexMap, i, prevIdx, nextIdx, expectedSpacing) ==
    IF indexMap[i] # NULL THEN The(indexMap[i])
    ELSE IF prevIdx >= 0 /\ nextIdx >= 0 THEN
        The(indexMap[prevIdx])
        + FMul(Ratio(i - prevIdx, nextIdx - prevIdx),
               The(indexMap[nextIdx]) - The(indexMap[prevIdx]))
    ELSE IF prevIdx >= 0 THEN
        The(indexMap[prevIdx]) + (i - prevIdx) * expectedSpacing
    ELSE IF nextIdx >= 0 THEN
        The(indexMap[nextIdx]) - (nextIdx - i) * expectedSpacing
    ELSE FMul(Real(i) + (Q \div 2), expectedSpacing)

\* The second loop of interpolateMissingPositions over a filled indexMap.
FillGaps(indexMap, numExpected, expectedSpacing) ==
    [i \in 1..numExpected |->
        FillEntry(indexMap, i - 1, PrevIdx(indexMap, i - 1),
                  NextIdx(indexMap, i - 1, numExpected), expectedSpacing)]

\* The detected positions alone, no gap filled.
DetectedOnly(detected, numExpected, totalExtent) == detected

interpolateMissingPositions(detected, numExpected, totalExtent) ==
    IF detected = <<>> THEN UniformPositions(totalExtent, numExpected)
    ELSE FillGaps(IndexMap(detected, 1, [i \in 0..(numExpected - 1) |-> NULL],
                           numExpected, Ratio(totalExtent, numExpected)),
                  numExpected, Ratio(totalExtent, numExpected))

\* selected.length < numExpected ? interpolateMissingPositions(...) : selected
FillMissing(selected, numExpected, totalExtent) ==
    IF Len(selected) < numExpected
    THEN interpolateMissingPositions(selected, numExpected, totalExtent)
    ELSE selected

\* Lines 1121-1167 of findPeaks: the bins of the peaks that non-maximum
\* suppression keeps, ascending.  positions: fixed-point reals;
\* totalExtent, numExpected: integers; minSeparation: a fixed-point real.
\* histSize = ceil(totalExtent) and kernelRadius = ceil(3 * sigma) for
\* sigma = minSeparation * 0.3.
SelectedPeaks(positions, totalExtent, numExpected, minSeparation) ==
    LET histogram == Histogram(positions, totalExtent,
                          Ceil(3 * FMul(minSeparation, (3 * Q) \div 10)))
        peaks     == SortByStrength(
                          LocalMaxima(histogram, totalExtent, 1, <<>>))
    IN  SortAscending(Suppress(peaks, 1, <<>>, numExpected, minSeparation))

\* The bins as fixed-point reals.
Reals(selected) == [k \in 1..Len(selected) |-> Real(selected[k])]

findPeaks(positions, totalExtent, numExpected, minSeparation) ==
    IF positions = <<>> THEN UniformPositions(totalExtent, numExpected)
    ELSE FillMissing(Reals(SelectedPeaks(positions, totalExtent, numExpected,
                                         minSeparation)),
                     numExpected, totalExtent)

\* The best index of the nearest-centre scan of assignBlobsToGrid and its
\* distance, <<best, bestDist>>, from entry k on.  bestDist = -1 stands for
\* Infinity.
RECURSIVE Nearest(_, _, _, _, _)
Nearest(center, positions, k, best, bestDist) ==
    IF k > Len(positions) THEN <<best, bestDist>>
    ELSE LET dist == Abs(center - positions[k])
         IN  IF bestDist < 0 \/ dist < bestDist
             THEN Nearest(center, positions, k + 1, k - 1, dist)
             ELSE Nearest(center, positions, k + 1, best, bestDist)

\* The average gap with the 10 pixels of a cell in place of 1 for fewer
\* than two positions.
AvgSpacingOfCell(positions) ==
    IF Len(positions) > 1
    THEN (positions[Len(positions)] - positions[1]) \div (Len(positions) - 1)
    ELSE 10 * Q

\* (last - first) / (length - 1), or 1 for fewer than two positions.
AvgSpacing(positions) ==
    IF Len(positions) > 1
    THEN (positions[Len(positions)] - positions[1]) \div (Len(positions) - 1)
    ELSE Q

\* The cell of a blob when a distance of exactly 0.6 spacings is accepted.
CellOfBlobInclusive(blob, rowPositions, colPositions) ==
    LET row == Nearest(blob.centerY, rowPositions, 1, 0, -1)
        col == Nearest(blob.centerX, colPositions, 1, 0, -1)
    IN  IF /\ col[2] >= 0
           /\ row[2] >= 0
           /\ col[2] <= FMul(AvgSpacing(colPositions), (6 * Q) \div 10)
           /\ row[2] <= FMul(AvgSpacing(rowPositions), (6 * Q) \div 10)
        THEN Some(<<row[1], col[1]>>)
        ELSE NULL

\* The cell a blob is assigned to, Some(<<row, col>>) (0-based), or NULL if
\* it is too far from every centre.
CellOfBlob(blob, rowPositions, colPositions) ==
    LET row == Nearest(blob.centerY, rowPositions, 1, 0, -1)
        col == Nearest(blob.centerX, colPositions, 1, 0, -1)
    IN  IF /\ col[2] >= 0
           /\ row[2] >= 0
           /\ col[2] < FMul(AvgSpacing(colPositions), (6 * Q) \div 10)
           /\ row[2] < FMul(AvgSpacing(rowPositions), (6 * Q) \div 10)
        THEN Some(<<row[1], col[1]>>)
        ELSE NULL

\* A loop over the blobs that flips the cell of each blob, from blob k on.
RECURSIVE ToggleFrom(_, _, _, _, _)
ToggleFrom(blobs, k, cells, rowPositions, colPositions) ==
    IF k > Len(blobs) THEN cells
    ELSE LET cell == CellOfBlob(blobs[k], rowPositions, colPositions)
         IN  ToggleFrom(blobs, k + 1,
                IF cell = NULL THEN cells
                ELSE [cells EXCEPT ![The(cell)[1] + 1][The(cell)[2] + 1] = ~@],
                rowPositions, colPositions)

\* The loop over the blobs, from blob k on.
RECURSIVE AssignFrom(_, _, _, _, _)
AssignFrom(blobs, k, cells, rowPositions, colPositions) ==
    IF k > Len(blobs) THEN cells
    ELSE LET cell == CellOfBlob(blobs[k], rowPositions, colPositions)
         IN  AssignFrom(blobs, k + 1,
                IF cell = NULL THEN cells
                ELSE [cells EXCEPT ![The(cell)[1] + 1][The(cell)[2] + 1] = TRUE],
                rowPositions, colPositions)

\* cellStates[r + 1][c + 1] is the code's cellStates[r][c].
assignBlobsToGrid(blobs, rowPositions, colPositions, outW, outH) ==
    AssignFrom(blobs, 1, [r \in 1..outH |-> [c \in 1..outW |-> FALSE]],
               rowPositions, colPositions)

(***************************************************************************)
(* Blob detection pipeline (lines 897-1110).  A raster of w * h values is  *)
(* a sequence whose entry y * w + x + 1 is the code's entry y * w + x.     *)
(***************************************************************************)
\* adaptiveThreshold, first loop: row y of the integral image (entries
\* x = 0..w, 1-based) from row y - 1, filled from x on.
RECURSIVE IntegralRow(_, _, _, _, _, _)
IntegralRow(gray, w, y, above, row, x) ==
    IF Len(row) < 0 \/ x > w THEN row
    ELSE IntegralRow(gray, w, y, above,
            Append(row, gray[(y - 1) * w + (x - 1) + 1] + above[x + 1]
                        + row[x] - above[x]),
            x + 1)

\* The integral image, rows 0..h (1-based), built from row y on.
RECURSIVE IntegralRows(_, _, _, _, _)
IntegralRows(gray, w, h, rows, y) ==
    IF Len(rows) < 0 \/ y > h THEN rows
    ELSE IntegralRows(gray, w, h,
            Append(rows, IntegralRow(gray, w, y, rows[y], <<0>>, 1)), y + 1)

\* integral[y * iw + x] is Integral(gray, w, h)[y + 1][x + 1].
Integral(gray, w, h) ==
    IntegralRows(gray, w, h, <<[x \in 1..(w + 1) |-> 0]>>, 1)

\* The window sum divided by the size of the unclipped window.
LocalMeanUnclipped(integral, w, h, windowRadius, x, y) ==
    LET x1  == Max(0, x - windowRadius)
        y1  == Max(0, y - windowRadius)
        x2  == Min(w - 1, x + windowRadius)
        y2  == Min(h - 1, y + windowRadius)
        sum == integral[y2 + 2][x2 + 2] - integral[y1 + 1][x2 + 2]
               - integral[y2 + 2][x1 + 1] + integral[y1 + 1][x1 + 1]
    IN  Ratio(sum, (2 * windowRadius + 1) * (2 * windowRadius + 1))

\* The mean of the window around (x, y), a fixed-point real.
LocalMean(integral, w, h, windowRadius, x, y) ==
    LET x1    == Max(0, x - windowRadius)
        y1    == Max(0, y - windowRadius)
        x2    == Min(w - 1, x + windowRadius)
        y2    == Min(h - 1, y + windowRadius)
        count == (x2 - x1 + 1) * (y2 - y1 + 1)
        sum   == integral[y2 + 2][x2 + 2] - integral[y1 + 1][x2 + 2]
                 - integral[y2 + 2][x1 + 1] + integral[y1 + 1][x1 + 1]
    IN  Ratio(sum, count)

\* A mask whose threshold is the local mean plus the sensitivity.
thresholdAboveMean(gray, w, h, windowRadius, sensitivity) ==
    LET integral == Integral(gray, w, h)
    IN  IF integral = <<>> THEN <<>>
        ELSE [i \in 1..(w * h) |->
                IF Real(gray[i])
                     < LocalMean(integral, w, h, windowRadius,
                                 (i - 1) % w, (i - 1) \div w)
                       + Real(sensitivity)
                THEN 1 ELSE 0]

\* The binary mask: 1 for foreground, 0 for background.
adaptiveThreshold(gray, w, h, windowRadius, sensitivity) ==
    LET integral == Integral(gray, w, h)
    IN  IF integral = <<>> THEN <<>>
        ELSE [i \in 1..(w * h) |->
                LET x == (i - 1) % w
                    y == (i - 1) \div w
                IN  IF Real(gray[i])
                         < LocalMean(integral, w, h, windowRadius, x, y)
                           - Real(sensitivity)
                    THEN 1 ELSE 0]

\* find(x) of the union-find, with its path halving: <<parent, root>>.
\* parent[l + 1] is the code's parent[l].
RECURSIVE Find(_, _)
Find(parent, x) ==
    IF parent[x + 1] = x THEN <<parent, x>>
    ELSE LET halved == [parent EXCEPT ![x + 1] = parent[parent[x + 1] + 1]]
         IN  Find(halved, halved[x + 1])

\* A union that links the two labels themselves, not their roots.
UnionOfLabels(parent, a, b) == [parent EXCEPT ![b + 1] = a]

\* union(a, b): the parent array afterwards.
Union(parent, a, b) ==
    LET fa == Find(parent, a)
        fb == Find(fa[1], b)
    IN  IF fa[2] # fb[2] THEN [fb[1] EXCEPT ![fb[2] + 1] = fa[2]] ELSE fb[1]

\* First pass at pixel (x, y); st is [labels, parent, nextLabel].
LabelPixel(binary, w, x, y, st) ==
    LET idx  == y * w + x
        left == IF x > 0 THEN st.labels[idx] ELSE 0
        up   == IF y > 0 THEN st.labels[idx - w + 1] ELSE 0
    IN  IF binary[idx + 1] = 0 THEN st
        ELSE IF left = 0 /\ up = 0 THEN
            [labels    |-> [st.labels EXCEPT ![idx + 1] = st.nextLabel],
             parent    |-> Append(st.parent, st.nextLabel),
             nextLabel |-> st.nextLabel + 1]
        ELSE IF left # 0 /\ up = 0 THEN
            [st EXCEPT !.labels[idx + 1] = left]
        ELSE IF left = 0 /\ up # 0 THEN
            [st EXCEPT !.labels[idx + 1] = up]
        ELSE
            [labels    |-> [st.labels EXCEPT ![idx + 1] = left],
             parent    |-> IF left # up THEN Union(st.parent, left, up)
                           ELSE st.parent,
             nextLabel |-> st.nextLabel]

RECURSIVE LabelRow(_, _, _, _, _)
LabelRow(binary, w, x, y, st) ==
    IF st.nextLabel < 0 \/ x >= w THEN st
    ELSE LabelRow(binary, w, x + 1, y, LabelPixel(binary, w, x, y, st))

RECURSIVE LabelRows(_, _, _, _, _)
LabelRows(binary, w, h, y, st) ==
    IF st.nextLabel < 0 \/ y >= h THEN st
    ELSE LabelRows(binary, w, h, y + 1, LabelRow(binary, w, 0, y, st))

\* Second pass at pixel (x, y); st is [parent, roots, stats]: roots lists
\* the keys of blobMap in insertion order and stats their statistics.
StatPixel(labels, w, x, y, st) ==
    LET idx == y * w + x IN
    IF labels[idx + 1] = 0 THEN st
    ELSE
      LET f    == Find(st.parent, labels[idx + 1])
          root == f[2]
          seen == \E k \in 1..Len(st.roots) : st.roots[k] = root
          k    == IF seen THEN CHOOSE j \in 1..Len(st.roots) : st.roots[j] = root
                  ELSE Len(st.roots) + 1
          old  == IF seen THEN st.stats[k]
                  ELSE [sumX |-> 0, sumY |-> 0, area |-> 0,
                        minX |-> x, maxX |-> x, minY |-> y, maxY |-> y]
          new  == [sumX |-> old.sumX + x, sumY |-> old.sumY + y,
                   area |-> old.area + 1,
                   minX |-> Min(old.minX, x), maxX |-> Max(old.maxX, x),
                   minY |-> Min(old.minY, y), maxY |-> Max(old.maxY, y)]
      IN  [parent |-> f[1],
           roots  |-> IF seen THEN st.roots ELSE Append(st.roots, root),
           stats  |-> IF seen THEN [st.stats EXCEPT ![k] = new]
                      ELSE Append(st.stats, new)]

RECURSIVE StatRow(_, _, _, _, _)
StatRow(labels, w, x, y, st) ==
    IF Len(st.roots) < 0 \/ x >= w THEN st
    ELSE StatRow(labels, w, x + 1, y, StatPixel(labels, w, x, y, st))

RECURSIVE StatRows(_, _, _, _, _)
StatRows(labels, w, h, y, st) ==
    IF Len(st.roots) < 0 \/ y >= h THEN st
    ELSE StatRows(labels, w, h, y + 1, StatRow(labels, w, 0, y, st))

\* The blobs in the order blobMap lists them; centres are fixed-point reals.
connectedComponentLabeling(binary, w, h) ==
    LET first  == LabelRows(binary, w, h, 0,
                     [labels |-> [i \in 1..(w * h) |-> 0], parent |-> <<0>>,
                      nextLabel |-> 1])
        second == StatRows(first.labels, w, h, 0,
                     [parent |-> first.parent, roots |-> <<>>, stats |-> <<>>])
    IN  [k \in 1..Len(second.stats) |->
            LET stats == second.stats[k]
            IN  [centerX |-> Ratio(stats.sumX, stats.area),
                 centerY |-> Ratio(stats.sumY, stats.area),
                 area |-> stats.area,
                 minX |-> stats.minX, maxX |-> stats.maxX,
                 minY |-> stats.minY, maxY |-> stats.maxY]]

\* A filter with the area band alone.
AcceptedByArea(blob, cellPx, blobSizePercent) ==
    LET expectedArea == FMul(Real(cellPx * cellPx), Ratio(blobSizePercent, 100))
    IN  ~(\/ Real(blob.area) < FMul(expectedArea, (15 * Q) \div 100)
          \/ Real(blob.area) > 5 * expectedArea)

\* Lines 1094-1097 in doubles: cellArea * (blobSizePercent / 100) * 5.0
\* falls short of 5 * cellArea * blobSizePercent / 100 for the cell area
\* 100 of a run and blobSizePercent = 29, 57, 58 (144.99999999999997,
\* 284.99999999999994, 289.99999999999994) and equals it for every other
\* blobSizePercent in 5..100; no integer lies between expectedArea * 0.15
\* and its exact value.  One unit of the model stands for the shortfall.
MaxAreaShortfall(cellArea, blobSizePercent) ==
    IF cellArea = 100 /\ blobSizePercent \in {29, 57, 58} THEN 1 ELSE 0

\* The filter's verdict on one blob.
BlobAccepted(blob, cellPx, blobSizePercent) ==
    LET cellArea     == cellPx * cellPx
        expectedArea == FMul(Real(cellArea), Ratio(blobSizePercent, 100))
        minArea      == FMul(expectedArea, (15 * Q) \div 100)
        maxArea      == 5 * expectedArea
                          - MaxAreaShortfall(cellArea, blobSizePercent)
        blobW        == blob.maxX - blob.minX + 1
        blobH        == blob.maxY - blob.minY + 1
    IN  /\ ~(Real(blob.area) < minArea \/ Real(blob.area) > maxArea)
        /\ ~(Max(blobW, blobH) > 5 * Max(1, Min(blobW, blobH)))

RECURSIVE FilterFrom(_, _, _, _)
FilterFrom(blobs, k, cellPx, blobSizePercent) ==
    IF k > Len(blobs) THEN <<>>
    ELSE (IF BlobAccepted(blobs[k], cellPx, blobSizePercent)
          THEN <<blobs[k]>> ELSE <<>>)
         \o FilterFrom(blobs, k + 1, cellPx, blobSizePercent)

filterBlobs(blobs, cellPx, blobSizePercent) ==
    FilterFrom(blobs, 1, cellPx, blobSizePercent)

(***************************************************************************)
(* State.  The fields of PunchcardDigitizer (lines 125-212) under their    *)
(* own names, the callbacks the browser holds for it, and the values a     *)
(* detection run passes from one stage to the next.                        *)
(***************************************************************************)
VARIABLES
    \* this.state (lines 145-163)
    uploadedImage,        \* NULL or Some(image id)
    outputWidth, outputHeight,
    selectionBox,         \* NULL or Some([x, y, width, height])
    corners,              \* NULL or <<tl, tr, br, bl>>
    edgeMidpoints,        \* NULL or four sequences of Corners
    midpointsPerEdge,
    isDragging,
    dragStart,            \* NULL or Some(Corner)
    draggingCornerIndex,  \* NULL or Some(0..3)
    draggingMidpointInfo, \* NULL or Some([edge, index])
    cellStates,           \* a sequence of rows of booleans
    showGrid,
    detectionSensitivity, neighborhoodRadius, blobSizePercent,
    hoveredCell,          \* NULL or Some([row, col])
    \* private fields (lines 166-212)
    canvas,               \* NULL or Some([width, height]): the bound element
    outputCanvas,         \* whether the output canvas is bound (line 168)
    pendingHoverFrame,    \* NULL or Some(request id)
    thresholdDebounceTimer, \* NULL or Some(timer id)
    inputCacheDirty, outputCacheDirty,
    selectionPixelData,   \* NULL or Some([image, x, y, w, h]): the pixels of
                          \* that image in that rectangle
    selectionBounds,      \* NULL or Some([x, y, w, h])
    selectionPixelsDirty,
    detectedBlobs, rectifiedCellPx,
    detectedColPositions, detectedRowPositions,
    edgePointArrays,      \* NULL or four sequences of Corners
    edgeArcTables,        \* NULL or four arc-length tables
    edgeArcTablesDirty,
    viewScale, viewOffsetX, viewOffsetY,
    isPanning, panLastX, panLastY,
    \* the browser
    timers,               \* the ids of the pending setTimeout callbacks
    frames,               \* the pending requestAnimationFrame callbacks, in
                          \* the order they were requested
    \* a detection run in progress and the record of the runs made
    blobs,                \* the blobs the filter passed on (line 1344)
    rectified,            \* NULL or Some([data, width, height]) (line 1323)
    runs,                 \* what is remembered of earlier runs
    \* a point taken through the surface map and back
    mapped                \* NULL or Some([col, row, pt, inverted, back])

stateVars ==
    <<uploadedImage, outputWidth, outputHeight, selectionBox, corners,
      edgeMidpoints, midpointsPerEdge, isDragging, dragStart,
      draggingCornerIndex, draggingMidpointInfo, cellStates, showGrid,
      detectionSensitivity, neighborhoodRadius, blobSizePercent, hoveredCell>>

privateVars ==
    <<canvas, outputCanvas, pendingHoverFrame, thresholdDebounceTimer, inputCacheDirty,
      outputCacheDirty, selectionPixelData, selectionBounds,
      selectionPixelsDirty, detectedBlobs, rectifiedCellPx,
      detectedColPositions, detectedRowPositions, edgePointArrays,
      edgeArcTables, edgeArcTablesDirty, viewScale, viewOffsetX, viewOffsetY,
      isPanning, panLastX, panLastY>>

vars ==
    <<stateVars, privateVars, timers, frames, blobs, rectified, runs, mapped>>

\* The field initialisers of lines 145-212 with the given grid dimensions,
\* detection parameters and boundary, and a browser holding no callback.
InitialisedWith(w, h, sensitivity, radius, percent, cs, mids, perEdge) ==
    /\ uploadedImage = NULL
    /\ outputWidth = w
    /\ outputHeight = h
    /\ selectionBox = NULL
    /\ corners = cs
    /\ edgeMidpoints = mids
    /\ midpointsPerEdge = perEdge
    /\ isDragging = FALSE
    /\ dragStart = NULL
    /\ draggingCornerIndex = NULL
    /\ draggingMidpointInfo = NULL
    /\ cellStates = <<>>
    /\ showGrid = FALSE
    /\ detectionSensitivity = sensitivity
    /\ neighborhoodRadius = radius
    /\ blobSizePercent = percent
    /\ hoveredCell = NULL
    /\ canvas = NULL
    /\ outputCanvas = FALSE
    /\ pendingHoverFrame = NULL
    /\ thresholdDebounceTimer = NULL
    /\ inputCacheDirty = TRUE
    /\ outputCacheDirty = TRUE
    /\ selectionPixelData = NULL
    /\ selectionBounds = NULL
    /\ selectionPixelsDirty = TRUE
    /\ detectedBlobs = <<>>
    /\ rectifiedCellPx = 0
    /\ detectedColPositions = <<>>
    /\ detectedRowPositions = <<>>
    /\ edgePointArrays = NULL
    /\ edgeArcTables = NULL
    /\ edgeArcTablesDirty = TRUE
    /\ viewScale = Q
    /\ viewOffsetX = 0
    /\ viewOffsetY = 0
    /\ isPanning = FALSE
    /\ panLastX = 0
    /\ panLastY = 0
    /\ timers = {}
    /\ frames = <<>>

\* The same with the one midpoint per edge of line 153.
Initialised(w, h, sensitivity, radius, percent, cs, mids) ==
    InitialisedWith(w, h, sensitivity, radius, percent, cs, mids, 1)

\* The state after construction, no boundary drawn.
Constructed(w, h, sensitivity, radius, percent) ==
    Initialised(w, h, sensitivity, radius, percent, NULL, NULL)

(***************************************************************************)
(* Steps 5 and 6 of autoDetect (lines 1346-1375)                           *)
(***************************************************************************)
cellPx == 10

\* cellPx * 0.7, the minSeparation autoDetect hands to findPeaks.
MinSeparation == FMul(Real(cellPx), (7 * Q) \div 10)

\* Lines 1358-1365: the grid for the blobs bs and the axes found for them.
Assigned(bs, colPositions, rowPositions, w, h) ==
    [colPositions |-> colPositions,
     rowPositions |-> rowPositions,
     cellStates   |-> assignBlobsToGrid(bs, rowPositions, colPositions, w, h)]

\* Lines 1346-1365: the axes (raster pixels) and the grid of a run whose
\* filter passed bs.
Lattice(bs, w, h) ==
    Assigned(bs,
             findPeaks([k \in 1..Len(bs) |-> bs[k].centerX],
                       w * cellPx, w, MinSeparation),
             findPeaks([k \in 1..Len(bs) |-> bs[k].centerY],
                       h * cellPx, h, MinSeparation),
             w, h)

\* positions.map((p) => p / cellPx)
InGridUnits(positions) ==
    [k \in 1..Len(positions) |-> positions[k] \div cellPx]

\* invalidateInputCache (lines 218-222)
invalidateInputCache ==
    /\ inputCacheDirty' = TRUE
    /\ selectionPixelsDirty' = TRUE
    /\ edgeArcTablesDirty' = TRUE

\* Lines 1366-1379: the results of a run over the blobs bs are stored.
Store(bs, l) ==
    /\ cellStates' = l.cellStates
    /\ showGrid' = TRUE
    /\ detectedBlobs' = bs
    /\ rectifiedCellPx' = cellPx
    /\ detectedColPositions' = InGridUnits(l.colPositions)
    /\ detectedRowPositions' = InGridUnits(l.rowPositions)
    /\ invalidateInputCache
    /\ outputCacheDirty' = TRUE

\* Lines 1346-1379 for the blobs the filter passed.
StoreLattice == Store(blobs, Lattice(blobs, outputWidth, outputHeight))

(***************************************************************************)
(* SpecLattice: steps 5 and 6 over every short list of blobs.  The grid    *)
(* dimensions are drawn at the start; FilterPasses hands one more blob to  *)
(* the run and LocateAndAssign completes it.                               *)
(***************************************************************************)
MaxBlobs == 3
LatticeWidths == {2, 3}
LatticeHeights == {1, 2}

\* Centroids, in raster pixels.
LatticeXs == {Real(5), Real(9), Real(11), Real(14), Real(16),
              Real(25) + (Q \div 2)}
LatticeYs == {Real(5), Real(14) + (Q \div 2)}

\* A blob of one pixel's area around a centroid.
BlobAt(cx, cy) ==
    [centerX |-> cx, centerY |-> cy, area |-> 1,
     minX |-> Floor(cx), maxX |-> Floor(cx),
     minY |-> Floor(cy), maxY |-> Floor(cy)]

InitLattice ==
    /\ \E w \in LatticeWidths, h \in LatticeHeights :
           Constructed(w, h, 75, 7, 50)
    /\ blobs = <<>>
    /\ rectified = NULL
    /\ runs = <<>>
    /\ mapped = NULL

FilterPasses(cx, cy) ==
    /\ Len(blobs) < MaxBlobs
    /\ cx <= Real(outputWidth * cellPx - 1)
    /\ cy <= Real(outputHeight * cellPx - 1)
    /\ blobs' = Append(blobs, BlobAt(cx, cy))
    /\ UNCHANGED <<stateVars, privateVars, timers, frames, rectified, runs,
                   mapped>>

LocateAndAssign ==
    /\ StoreLattice
    /\ UNCHANGED <<uploadedImage, outputWidth, outputHeight, selectionBox,
                   corners, edgeMidpoints, midpointsPerEdge, isDragging,
                   dragStart, draggingCornerIndex, draggingMidpointInfo,
                   detectionSensitivity, neighborhoodRadius, blobSizePercent,
                   hoveredCell>>
    /\ UNCHANGED <<canvas, outputCanvas, pendingHoverFrame, thresholdDebounceTimer,
                   selectionPixelData, selectionBounds, edgePointArrays,
                   edgeArcTables, viewScale, viewOffsetX, viewOffsetY,
                   isPanning, panLastX, panLastY>>
    /\ UNCHANGED <<timers, frames, blobs, rectified, runs, mapped>>

NextLattice ==
    \/ \E cx \in LatticeXs, cy \in LatticeYs : FilterPasses(cx, cy)
    \/ LocateAndAssign

SpecLattice == InitLattice /\ [][NextLattice]_vars

(***************************************************************************)
(* Properties of steps 5 and 6 (SpecLattice)                               *)
(***************************************************************************)
StrictlyIncreasing(s) == \A k \in 1..(Len(s) - 1) : s[k] < s[k + 1]

\* The centroids of the stored blobs, per axis.
StoredXs == [k \in 1..Len(detectedBlobs) |-> detectedBlobs[k].centerX]
StoredYs == [k \in 1..Len(detectedBlobs) |-> detectedBlobs[k].centerY]

\* The peaks that suppression kept for the stored blobs, per axis.
StoredColPeaks ==
    SelectedPeaks(StoredXs, outputWidth * cellPx, outputWidth, MinSeparation)
StoredRowPeaks ==
    SelectedPeaks(StoredYs, outputHeight * cellPx, outputHeight, MinSeparation)

\* C1: once a run has stored its results, the grid has outputHeight rows of
\* outputWidth booleans each, the column axis has outputWidth entries and
\* the row axis has outputHeight entries, whatever blobs the run was given.
GridShape ==
    showGrid =>
        /\ Len(cellStates) = outputHeight
        /\ \A r \in 1..Len(cellStates) :
               /\ Len(cellStates[r]) = outputWidth
               /\ \A c \in 1..Len(cellStates[r]) : cellStates[r][c] \in BOOLEAN
        /\ Len(detectedColPositions) = outputWidth
        /\ Len(detectedRowPositions) = outputHeight

\* A run has completed with fewer column peaks than columns (gaps filled)
\* and as many row peaks as rows.
GridShapeWitness ==
    /\ showGrid
    /\ detectedBlobs # <<>>
    /\ Len(StoredColPeaks) < outputWidth
    /\ Len(StoredRowPeaks) = outputHeight

\* C2: the column axis and the row axis a run stores are strictly
\* increasing, whatever the centroids of its blobs.
AxesIncrease ==
    showGrid =>
        /\ StrictlyIncreasing(detectedColPositions)
        /\ StrictlyIncreasing(detectedRowPositions)

\* A run has completed in which two kept column peaks fell on the same
\* index of interpolateMissingPositions (the same band of cellPx pixels)
\* and another band had to be filled.
AxesIncreaseWitness ==
    /\ showGrid
    /\ detectedBlobs # <<>>
    /\ Len(StoredColPeaks) < outputWidth
    /\ \E a, b \in 1..Len(StoredColPeaks) :
           /\ a < b
           /\ StoredColPeaks[a] \div cellPx = StoredColPeaks[b] \div cellPx

\* The axes, in raster pixels, that the run found for the stored blobs.
StoredCols ==
    findPeaks(StoredXs, outputWidth * cellPx, outputWidth, MinSeparation)
StoredRows ==
    findPeaks(StoredYs, outputHeight * cellPx, outputHeight, MinSeparation)

\* A list without its entry j.
Without(s, j) == [k \in 1..(Len(s) - 1) |-> IF k < j THEN s[k] ELSE s[k + 1]]

\* The stored blobs i and j were assigned to one cell.
SameCell(i, j) ==
    /\ i # j
    /\ CellOfBlob(detectedBlobs[i], StoredRows, StoredCols) # NULL
    /\ CellOfBlob(detectedBlobs[i], StoredRows, StoredCols)
         = CellOfBlob(detectedBlobs[j], StoredRows, StoredCols)

\* C6 (as stated): if two blobs of a run map to the same cell, the grid of
\* the run is the grid of a run in which only one of the two exists.
OneBlobPerCellSameGrid ==
    showGrid =>
        \A i, j \in 1..Len(detectedBlobs) :
            SameCell(i, j) =>
                Lattice(Without(detectedBlobs, j), outputWidth,
                        outputHeight).cellStates = cellStates

\* C6 (amended): if two blobs of a run map to the same cell, assigning the
\* blobs without one of the two to the axes of that run gives the grid of
\* the run.
AssignmentIdempotent ==
    showGrid =>
        \A i, j \in 1..Len(detectedBlobs) :
            SameCell(i, j) =>
                assignBlobsToGrid(Without(detectedBlobs, j), StoredRows,
                                  StoredCols, outputWidth, outputHeight)
                    = cellStates

\* A run has completed in which two blobs were assigned to one cell.
AssignmentIdempotentWitness ==
    /\ showGrid
    /\ \E i, j \in 1..Len(detectedBlobs) : SameCell(i, j)

(***************************************************************************)
(* SpecMap: the surface map and its inverse on the state.  A boundary and  *)
(* grid dimensions are drawn at the start; TransformAt takes a grid        *)
(* coordinate to the image and InvertPoint takes the image point back.     *)
(***************************************************************************)

\* The arc-length tables as ensureEdgeArcTables (lines 231-258) leaves
\* them, and the edge point arrays and the dirty flag with them.
EnsuredTables ==
    IF ~edgeArcTablesDirty /\ edgeArcTables # NULL THEN edgeArcTables
    ELSE IF corners = NULL THEN NULL
    ELSE ArcTables(EdgePoints(corners, edgeMidpoints))

ensureEdgeArcTables ==
    /\ edgeArcTables' = EnsuredTables
    /\ edgePointArrays' =
           IF ~edgeArcTablesDirty /\ edgeArcTables # NULL THEN edgePointArrays
           ELSE IF corners = NULL THEN NULL
           ELSE EdgePoints(corners, edgeMidpoints)
    /\ edgeArcTablesDirty' =
           IF ~edgeArcTablesDirty /\ edgeArcTables # NULL THEN FALSE
           ELSE IF corners = NULL THEN edgeArcTablesDirty
           ELSE FALSE

\* What a call of transformPoint does to the tables: nothing without
\* corners or midpoints (lines 725-747), ensureEdgeArcTables otherwise.
TablesForTransform ==
    IF corners = NULL \/ edgeMidpoints = NULL
    THEN UNCHANGED <<edgeArcTables, edgePointArrays, edgeArcTablesDirty>>
    ELSE ensureEdgeArcTables

\* A boundary: a square of 20 pixels, a rectangle of 200 by 100 pixels, both
\* with their midpoints where initEdgeMidpoints puts them, and a
\* quadrilateral whose four midpoints were dragged outwards.
Boundary(tl, tr, br, bl, top, right, bottom, left) ==
    [corners |-> <<tl, tr, br, bl>>,
     mids    |-> << <<top>>, <<right>>, <<bottom>>, <<left>> >>]

Boundaries ==
    { Boundary(Pt(Real(10), Real(10)), Pt(Real(30), Real(10)),
               Pt(Real(30), Real(30)), Pt(Real(10), Real(30)),
               Pt(Real(20), Real(10)), Pt(Real(30), Real(20)),
               Pt(Real(20), Real(30)), Pt(Real(10), Real(20))),
      Boundary(Pt(Real(10), Real(10)), Pt(Real(210), Real(10)),
               Pt(Real(210), Real(110)), Pt(Real(10), Real(110)),
               Pt(Real(110), Real(10)), Pt(Real(210), Real(60)),
               Pt(Real(110), Real(110)), Pt(Real(10), Real(60))),
      Boundary(Pt(Real(3), Real(2)), Pt(Real(40), Real(4)),
               Pt(Real(38), Real(35)), Pt(Real(1), Real(30)),
               Pt(Real(20), Real(-2)), Pt(Real(42), Real(20)),
               Pt(Real(20), Real(36)), Pt(Real(0), Real(15))) }

MapWidths == {2, 3}
MapHeights == {2}

\* u and v in hundredths, covering [0.05, 0.95].
MapFractions == {5, 25, 50, 75, 95}

InitMap ==
    /\ \E w \in MapWidths, h \in MapHeights, b \in Boundaries :
           Initialised(w, h, 75, 7, 50, b.corners, b.mids)
    /\ blobs = <<>>
    /\ rectified = NULL
    /\ runs = <<>>
    /\ mapped = NULL

MapUnchanged ==
    /\ UNCHANGED stateVars
    /\ UNCHANGED <<canvas, outputCanvas, pendingHoverFrame, thresholdDebounceTimer,
                   inputCacheDirty, outputCacheDirty, selectionPixelData,
                   selectionBounds, selectionPixelsDirty, detectedBlobs,
                   rectifiedCellPx, detectedColPositions,
                   detectedRowPositions, viewScale, viewOffsetX, viewOffsetY,
                   isPanning, panLastX, panLastY>>
    /\ UNCHANGED <<timers, frames, blobs, rectified, runs>>

\* transformPoint(col, row) for col = u * outputWidth, row = v * outputHeight.
TransformAt(u, v) ==
    /\ mapped = NULL
    /\ TablesForTransform
    /\ mapped' = Some([col |-> (Real(u) \div 100) * outputWidth,
                       row |-> (Real(v) \div 100) * outputHeight,
                       pt  |-> transformPoint(
                                   (Real(u) \div 100) * outputWidth,
                                   (Real(v) \div 100) * outputHeight,
                                   corners, edgeMidpoints, edgePointArrays',
                                   edgeArcTables', outputWidth, outputHeight),
                       inverted |-> FALSE,
                       back |-> NULL])
    /\ MapUnchanged

\* inverseTransformPoint of the image point.
InvertPoint ==
    /\ mapped # NULL
    /\ ~The(mapped).inverted
    /\ TablesForTransform
    /\ mapped' = Some([The(mapped) EXCEPT
                          !.inverted = TRUE,
                          !.back = inverseTransformPoint(
                                       The(mapped).pt.x, The(mapped).pt.y,
                                       corners, edgeMidpoints,
                                       edgePointArrays', edgeArcTables',
                                       outputWidth, outputHeight)])
    /\ MapUnchanged

NextMap ==
    \/ \E u \in MapFractions, v \in MapFractions : TransformAt(u, v)
    \/ InvertPoint

SpecMap == InitMap /\ [][NextMap]_vars

\* The distance of two reals is below a bound.
Near(a, b, bound) == Abs(a - b) < bound

\* The image of the grid coordinate the inverse returned.
ForwardOfBack ==
    transformPoint(The(The(mapped).back).x, The(The(mapped).back).y,
                   corners, edgeMidpoints, edgePointArrays, edgeArcTables,
                   outputWidth, outputHeight)

windowRadius == Max(3, neighborhoodRadius * cellPx)

\* Lines 1327-1333 on the rectified raster rect at sensitivity s.
Binary(rect, s) ==
    adaptiveThreshold(rect.data, rect.width, rect.height, windowRadius, s)

\* Lines 1336-1344: the blobs of a mask that pass the filter.
FilteredBlobs(rect, binary) ==
    filterBlobs(connectedComponentLabeling(binary, rect.width, rect.height),
                cellPx, blobSizePercent)

\* A rectified raster of w by h cells.  Every cell shows the same punch: a
\* black square of core by core pixels from pixel (3, 3) of the cell on,
\* inside a ring one pixel wide of gray level halo, on white paper.
PunchGray(x, y, core, halo) ==
    IF x >= 3 /\ x < 3 + core /\ y >= 3 /\ y < 3 + core THEN 0
    ELSE IF x >= 2 /\ x <= 3 + core /\ y >= 2 /\ y <= 3 + core THEN halo
    ELSE 255

Raster(w, h, core, halo) ==
    [data   |-> [i \in 1..(w * cellPx * h * cellPx) |->
                    PunchGray(((i - 1) % (w * cellPx)) % cellPx,
                              ((i - 1) \div (w * cellPx)) % cellPx,
                              core, halo)],
     width  |-> w * cellPx,
     height |-> h * cellPx]

PipeWidths == {1, 2}
PipeHeights == {1}
PipeCores == {2, 4}
PipeHalos == {100, 255}
PipePunchSizes == {5, 50}
PipeSensitivities == {50, 75, 100}

InitPipe ==
    /\ \E w \in PipeWidths, h \in PipeHeights, percent \in PipePunchSizes :
           Constructed(w, h, 75, 7, percent)
    /\ \E core \in PipeCores, halo \in PipeHalos :
           rectified = Some(Raster(outputWidth, outputHeight, core, halo))
    /\ blobs = <<>>
    /\ runs = {}
    /\ mapped = NULL

\* Lines 1344-1379 for the mask binary found at sensitivity s and the blobs
\* bs that pass the filter; the run is recorded.
LocateAssignRecord(s, binary, bs) ==
    /\ Store(bs, Lattice(bs, outputWidth, outputHeight))
    /\ blobs' = bs
    /\ runs' = runs \cup {[sensitivity |-> s, binary |-> binary,
                           cellStates |-> cellStates']}

DetectFrom(s, rect, binary) ==
    LocateAssignRecord(s, binary, FilteredBlobs(rect, binary))

\* The sensitivity is set to s and the pipeline runs on the raster.
DetectAt(s) ==
    /\ \A run \in runs : run.sensitivity # s
    /\ detectionSensitivity' = s
    /\ DetectFrom(s, The(rectified), Binary(The(rectified), s))
    /\ UNCHANGED <<uploadedImage, outputWidth, outputHeight, selectionBox,
                   corners, edgeMidpoints, midpointsPerEdge, isDragging,
                   dragStart, draggingCornerIndex, draggingMidpointInfo,
                   neighborhoodRadius, blobSizePercent, hoveredCell>>
    /\ UNCHANGED <<canvas, outputCanvas, pendingHoverFrame, thresholdDebounceTimer,
                   selectionPixelData, selectionBounds, edgePointArrays,
                   edgeArcTables, viewScale, viewOffsetX, viewOffsetY,
                   isPanning, panLastX, panLastY>>
    /\ UNCHANGED <<timers, frames, rectified, mapped>>

NextPipe == \E s \in PipeSensitivities : DetectAt(s)

SpecPipe == InitPipe /\ [][NextPipe]_vars

\* The punched cells of a grid.
Punched(cells) ==
    {rc \in (1..Len(cells)) \X (1..outputWidth) : cells[rc[1]][rc[2]]}

\* The foreground pixels of a mask.
Foreground(binary) == {i \in 1..Len(binary) : binary[i] = 1}

\* C5 (as stated): of two runs on the same raster, grid dimensions,
\* neighbourhood and punch size, the run at the higher sensitivity punches
\* a subset of the cells of the run at the lower sensitivity.
PunchedMonotone ==
    \A lo \in runs, hi \in runs :
        lo.sensitivity <= hi.sensitivity =>
            Punched(hi.cellStates) \subseteq Punched(lo.cellStates)

\* C5 (amended): of two such runs, the foreground mask of the run at the
\* higher sensitivity is a subset of the mask of the run at the lower
\* sensitivity.
MaskMonotone ==
    \A lo \in runs, hi \in runs :
        lo.sensitivity <= hi.sensitivity =>
            Foreground(hi.binary) \subseteq Foreground(lo.binary)

\* Two runs were made whose masks differ, the higher sensitivity leaving
\* some but not all of the foreground of the lower.
MaskMonotoneWitness ==
    \E lo \in runs, hi \in runs :
        /\ lo.sensitivity < hi.sensitivity
        /\ Foreground(hi.binary) # {}
        /\ Foreground(hi.binary) # Foreground(lo.binary)

(***************************************************************************)
(* The application: the handlers of the class as functions from the state  *)
(* to the state, and the browser's timers and animation frames.  A state   *)
(* is a record of the fields, of the pending callbacks and of the outcomes *)
(* of the runs made on the present inputs.                                 *)
(***************************************************************************)

State ==
    [uploadedImage          |-> uploadedImage,
     outputWidth            |-> outputWidth,
     outputHeight           |-> outputHeight,
     selectionBox           |-> selectionBox,
     corners                |-> corners,
     edgeMidpoints          |-> edgeMidpoints,
     midpointsPerEdge       |-> midpointsPerEdge,
     isDragging             |-> isDragging,
     dragStart              |-> dragStart,
     draggingCornerIndex    |-> draggingCornerIndex,
     draggingMidpointInfo   |-> draggingMidpointInfo,
     cellStates             |-> cellStates,
     showGrid               |-> showGrid,
     detectionSensitivity   |-> detectionSensitivity,
     neighborhoodRadius     |-> neighborhoodRadius,
     blobSizePercent        |-> blobSizePercent,
     hoveredCell            |-> hoveredCell,
     canvas                 |-> canvas,
     outputCanvas           |-> outputCanvas,
     pendingHoverFrame      |-> pendingHoverFrame,
     thresholdDebounceTimer |-> thresholdDebounceTimer,
     inputCacheDirty        |-> inputCacheDirty,
     outputCacheDirty       |-> outputCacheDirty,
     selectionPixelData     |-> selectionPixelData,
     selectionBounds        |-> selectionBounds,
     selectionPixelsDirty   |-> selectionPixelsDirty,
     detectedBlobs          |-> detectedBlobs,
     rectifiedCellPx        |-> rectifiedCellPx,
     detectedColPositions   |-> detectedColPositions,
     detectedRowPositions   |-> detectedRowPositions,
     edgePointArrays        |-> edgePointArrays,
     edgeArcTables          |-> edgeArcTables,
     edgeArcTablesDirty     |-> edgeArcTablesDirty,
     viewScale              |-> viewScale,
     viewOffsetX            |-> viewOffsetX,
     viewOffsetY            |-> viewOffsetY,
     isPanning              |-> isPanning,
     panLastX               |-> panLastX,
     panLastY               |-> panLastY,
     timers                 |-> timers,
     frames                 |-> frames,
     runs                   |-> runs]

\* What a detection run is a function of: the image, the boundary, the
\* grid dimensions and the detection parameters.
InputsOf(st) ==
    <<st.uploadedImage, st.corners, st.edgeMidpoints, st.outputWidth,
      st.outputHeight, st.detectionSensitivity, st.neighborhoodRadius,
      st.blobSizePercent>>

\* The fields become those of st.  The outcomes on record are those of the
\* runs made since an input last changed.
FieldsBecome(st) ==
    /\ uploadedImage' = st.uploadedImage
    /\ outputWidth' = st.outputWidth
    /\ outputHeight' = st.outputHeight
    /\ selectionBox' = st.selectionBox
    /\ corners' = st.corners
    /\ edgeMidpoints' = st.edgeMidpoints
    /\ midpointsPerEdge' = st.midpointsPerEdge
    /\ isDragging' = st.isDragging
    /\ dragStart' = st.dragStart
    /\ draggingCornerIndex' = st.draggingCornerIndex
    /\ draggingMidpointInfo' = st.draggingMidpointInfo
    /\ cellStates' = st.cellStates
    /\ showGrid' = st.showGrid
    /\ detectionSensitivity' = st.detectionSensitivity
    /\ neighborhoodRadius' = st.neighborhoodRadius
    /\ blobSizePercent' = st.blobSizePercent
    /\ hoveredCell' = st.hoveredCell
    /\ canvas' = st.canvas
    /\ outputCanvas' = st.outputCanvas
    /\ pendingHoverFrame' = st.pendingHoverFrame
    /\ thresholdDebounceTimer' = st.thresholdDebounceTimer
    /\ inputCacheDirty' = st.inputCacheDirty
    /\ outputCacheDirty' = st.outputCacheDirty
    /\ selectionPixelData' = st.selectionPixelData
    /\ selectionBounds' = st.selectionBounds
    /\ selectionPixelsDirty' = st.selectionPixelsDirty
    /\ detectedBlobs' = st.detectedBlobs
    /\ rectifiedCellPx' = st.rectifiedCellPx
    /\ detectedColPositions' = st.detectedColPositions
    /\ detectedRowPositions' = st.detectedRowPositions
    /\ edgePointArrays' = st.edgePointArrays
    /\ edgeArcTables' = st.edgeArcTables
    /\ edgeArcTablesDirty' = st.edgeArcTablesDirty
    /\ viewScale' = st.viewScale
    /\ viewOffsetX' = st.viewOffsetX
    /\ viewOffsetY' = st.viewOffsetY
    /\ isPanning' = st.isPanning
    /\ panLastX' = st.panLastX
    /\ panLastY' = st.panLastY
    /\ timers' = st.timers
    /\ frames' = st.frames
    /\ runs' = IF InputsOf(st) = InputsOf(State) THEN st.runs ELSE {}
    /\ UNCHANGED <<blobs, rectified, mapped>>

\* The handler is evaluated once, to the state s.
Becomes(st) == \E s \in {st} : FieldsBecome(s)

\* invalidateInputCache (lines 218-222) and invalidateCaches (lines
\* 224-229).
invalidatedInputCache(st) ==
    [st EXCEPT !.inputCacheDirty = TRUE, !.selectionPixelsDirty = TRUE,
               !.edgeArcTablesDirty = TRUE]

invalidateCaches(st) ==
    [st EXCEPT !.inputCacheDirty = TRUE, !.outputCacheDirty = TRUE,
               !.selectionPixelsDirty = TRUE, !.edgeArcTablesDirty = TRUE]

\* ensureEdgeArcTables (lines 231-258).
ensuredEdgeArcTables(st) ==
    IF ~st.edgeArcTablesDirty /\ st.edgeArcTables # NULL THEN st
    ELSE IF st.corners = NULL
    THEN [st EXCEPT !.edgeArcTables = NULL, !.edgePointArrays = NULL]
    ELSE [st EXCEPT !.edgePointArrays =
                        EdgePoints(st.corners, st.edgeMidpoints),
                    !.edgeArcTables =
                        ArcTables(EdgePoints(st.corners, st.edgeMidpoints)),
                    !.edgeArcTablesDirty = FALSE]

\* What one or more calls of transformPoint leave of the state: the tables
\* are ensured once the corners and the midpoints are there (lines
\* 725-750).
transformed(st) ==
    IF st.corners = NULL \/ st.edgeMidpoints = NULL THEN st
    ELSE ensuredEdgeArcTables(st)

\* rebuildInputCache (lines 1486-1709): transformPoint is called for the
\* grid lines (lines 1559-1620, at least once for positive dimensions) and
\* for the blob centres (lines 1691-1704).
rebuildInputCache(st) ==
    IF st.canvas = NULL \/ st.uploadedImage = NULL THEN st
    ELSE [(IF /\ st.corners # NULL
              /\ \/ st.showGrid
                 \/ st.detectedBlobs # <<>> /\ st.rectifiedCellPx > 0
           THEN transformed(st) ELSE st)
          EXCEPT !.inputCacheDirty = FALSE]

\* Lines 1405-1427 and 1473-1483 of drawCanvas: the hovered cell and the
\* zoom preview of a dragged handle (lines 1711-1944) are drawn through
\* transformPoint.
drawOverlays(st) ==
    IF /\ st.corners # NULL
       /\ st.showGrid
       /\ \/ st.hoveredCell # NULL
          \/ st.draggingCornerIndex # NULL
          \/ st.draggingMidpointInfo # NULL /\ st.edgeMidpoints # NULL
    THEN transformed(st) ELSE st

\* drawCanvas (lines 1382-1484).  The offscreen canvas of line 1385 exists
\* from the first rebuild on, and inputCacheDirty is true until then.
drawCanvas(st) ==
    IF st.canvas = NULL \/ st.uploadedImage = NULL THEN st
    ELSE drawOverlays(IF st.inputCacheDirty THEN rebuildInputCache(st)
                      ELSE st)

\* drawOutputCanvas (lines 1946-2001) with rebuildOutputCache (lines
\* 2003-2075).
drawOutputCanvas(st) ==
    IF ~st.outputCanvas \/ st.cellStates = <<>> THEN st
    ELSE [st EXCEPT !.outputCacheDirty = FALSE]

\* The tail of render (lines 2577-2582): setupCanvas is requested for the
\* next animation frame.
render(st) ==
    IF st.uploadedImage = NULL THEN st
    ELSE [st EXCEPT !.frames = Append(@, "setupCanvas")]

(***************************************************************************)
(* autoDetect (lines 1305-1380) with rebuildSelectionPixelData (lines      *)
(* 848-895) and createRectifiedGrayscale (lines 899-941)                   *)
(***************************************************************************)

\* The images a user uploads, each ImageWidth by ImageHeight pixels, and
\* the gray level (red = green = blue) of pixel (x, y) of each: white paper
\* with one dark punch, in the middle of image 1 and to the upper left in
\* image 2.
ImageWidth == 150
ImageHeight == 110

Pixel(img, x, y) ==
    IF img = 1
    THEN IF x >= 45 /\ x < 105 /\ y >= 33 /\ y < 77 THEN 0 ELSE 255
    ELSE IF x >= 15 /\ x < 45 /\ y >= 11 /\ y < 33 THEN 0 ELSE 255

\* Lines 852-857: the corners and every midpoint.
AllPoints(cs, mids) ==
    cs \o (IF mids = NULL THEN <<>>
           ELSE mids[1] \o mids[2] \o mids[3] \o mids[4])

Least(values) == CHOOSE m \in values : \A n \in values : m <= n
Greatest(values) == CHOOSE m \in values : \A n \in values : m >= n

\* Lines 859-877: the bounding box of the points, clipped to the canvas
\* cv, as [x, y, w, h].
ClippedBox(pts, cv) ==
    LET minX == Max(0, Floor(Least({pts[k].x : k \in 1..Len(pts)})))
        minY == Max(0, Floor(Least({pts[k].y : k \in 1..Len(pts)})))
        maxX == Min(cv.width, Ceil(Greatest({pts[k].x : k \in 1..Len(pts)})))
        maxY == Min(cv.height, Ceil(Greatest({pts[k].y : k \in 1..Len(pts)})))
    IN  [x |-> minX, y |-> minY, w |-> maxX - minX, h |-> maxY - minY]

\* Lines 879-894 for the clipped box: nothing is stored for an empty box;
\* otherwise the image, drawn over the whole canvas, is read back inside
\* the box.  (The canvas has the size of the image, line 2593.)
StorePixels(st, box) ==
    IF box.w <= 0 \/ box.h <= 0 THEN st
    ELSE [st EXCEPT !.selectionPixelData =
                        Some([image |-> The(st.uploadedImage),
                              x |-> box.x, y |-> box.y,
                              w |-> box.w, h |-> box.h]),
                    !.selectionBounds = Some(box),
                    !.selectionPixelsDirty = FALSE]

rebuildSelectionPixelData(st) ==
    IF st.uploadedImage = NULL \/ st.corners = NULL \/ st.canvas = NULL
    THEN st
    ELSE StorePixels(st, ClippedBox(AllPoints(st.corners, st.edgeMidpoints),
                                    The(st.canvas)))

\* Lines 923-934: the gray level of the raster pixel that maps to pt.
GrayAt(pt, data, bounds) ==
    LET px == Floor(pt.x) - bounds.x
        py == Floor(pt.y) - bounds.y
    IN  IF px >= 0 /\ px < bounds.w /\ py >= 0 /\ py < bounds.h
        THEN Pixel(data.image, data.x + px, data.y + py)
        ELSE 128

\* createRectifiedGrayscale, the tables ensured by its first call of
\* transformPoint (line 920).
createRectifiedGrayscale(st, outW, outH) ==
    [data   |-> [i \in 1..(outW * cellPx * outH * cellPx) |->
                    GrayAt(transformPoint(
                               Ratio((i - 1) % (outW * cellPx), cellPx),
                               Ratio((i - 1) \div (outW * cellPx), cellPx),
                               st.corners, st.edgeMidpoints,
                               st.edgePointArrays, st.edgeArcTables,
                               outW, outH),
                           The(st.selectionPixelData),
                           The(st.selectionBounds))],
     width  |-> outW * cellPx,
     height |-> outH * cellPx]

\* Lines 1358-1379: the run stores its results, invalidates and renders.
StoreRun(st, bs, l) ==
    render([invalidatedInputCache(st) EXCEPT
               !.cellStates = l.cellStates,
               !.showGrid = TRUE,
               !.detectedBlobs = bs,
               !.rectifiedCellPx = cellPx,
               !.detectedColPositions = InGridUnits(l.colPositions),
               !.detectedRowPositions = InGridUnits(l.rowPositions),
               !.outputCacheDirty = TRUE,
               !.runs = @ \cup {Some(l.cellStates)}])

\* Lines 1346-1357 for the blobs that passed the filter.
LocateBlobs(st, bs) ==
    StoreRun(st, bs, Lattice(bs, st.outputWidth, st.outputHeight))

\* Lines 1336-1344 for the mask.
FilterMask(st, rect, binary) ==
    LocateBlobs(st, filterBlobs(connectedComponentLabeling(
                                    binary, rect.width, rect.height),
                                cellPx, st.blobSizePercent))

\* Lines 1326-1333 for the raster.
ThresholdRaster(st, rect) ==
    FilterMask(st, rect,
               adaptiveThreshold(rect.data, rect.width, rect.height,
                                 Max(3, st.neighborhoodRadius * cellPx),
                                 st.detectionSensitivity))

\* Lines 1320-1324 once the pixel data are there.  new Uint8Array(w * h)
\* (line 908) throws a RangeError for a negative length: the run ends there
\* without a result.
Rectify(st) ==
    IF st.outputWidth * st.outputHeight < 0
    THEN [st EXCEPT !.runs = @ \cup {NULL}]
    ELSE ThresholdRaster(st, createRectifiedGrayscale(st, st.outputWidth,
                                                      st.outputHeight))

\* Lines 1318-1319: the run ends without a result when no pixel data could
\* be read.
DetectWith(st) ==
    IF st.selectionPixelData = NULL \/ st.selectionBounds = NULL
    THEN [st EXCEPT !.runs = @ \cup {NULL}]
    ELSE Rectify(transformed(st))

\* autoDetect with the caches invalidated before the inputs are looked at.
autoDetectInvalidating(st) ==
    IF st.uploadedImage = NULL \/ st.corners = NULL \/ st.canvas = NULL
    THEN invalidateCaches([st EXCEPT !.runs = @ \cup {NULL}])
    ELSE DetectWith(IF \/ st.selectionPixelsDirty
                       \/ st.selectionPixelData = NULL
                       \/ st.selectionBounds = NULL
                    THEN rebuildSelectionPixelData(st)
                    ELSE st)

\* autoDetect (lines 1305-1380).  An invocation that returns at line 1308
\* is recorded as one without a result.
autoDetect(st) ==
    IF st.uploadedImage = NULL \/ st.corners = NULL \/ st.canvas = NULL
    THEN [st EXCEPT !.runs = @ \cup {NULL}]
    ELSE DetectWith(IF \/ st.selectionPixelsDirty
                       \/ st.selectionPixelData = NULL
                       \/ st.selectionBounds = NULL
                    THEN rebuildSelectionPixelData(st)
                    ELSE st)
(***************************************************************************)
(* The pointer on the canvas (lines 324-565, 652-720)                      *)
(***************************************************************************)

\* getCanvasCoords (lines 324-335) for the canvas position p of the event,
\* the canvas bound.
getCanvasCoords(st, p) ==
    Pt(FDiv(p.x - st.viewOffsetX, st.viewScale),
       FDiv(p.y - st.viewOffsetY, st.viewScale))

\* Lines 655-664 and 675-685: the first of the points within radius of
\* (x, y), as a position in the sequence, or 0.
FirstWithin(points, x, y, radius) ==
    LET hits == {k \in 1..Len(points) :
                    Hypot(x - points[k].x, y - points[k].y) <= radius}
    IN  IF hits = {} THEN 0 ELSE Least(hits)

\* getCornerAtPoint (lines 652-667): NULL or Some(index), from 0.
getCornerAtPoint(st, coords) ==
    IF st.corners = NULL THEN NULL
    ELSE LET k == FirstWithin(st.corners, coords.x, coords.y,
                              FMul(Real(60), FDiv(Q, st.viewScale)))
         IN  IF k = 0 THEN NULL ELSE Some(k - 1)

\* The midpoints edge by edge, each with its edge and index (from 0).
MidpointHandles(mids) ==
    LET of(e) == [i \in 1..Len(mids[e]) |->
                     [x |-> mids[e][i].x, y |-> mids[e][i].y,
                      edge |-> e - 1, index |-> i - 1]]
    IN  of(1) \o of(2) \o of(3) \o of(4)

\* getMidpointAtPoint (lines 668-688): NULL or Some([edge, index]).
HandleAt(handles, k) ==
    IF k = 0 THEN NULL
    ELSE Some([edge |-> handles[k].edge, index |-> handles[k].index])

getMidpointAtPoint(st, coords) ==
    IF st.edgeMidpoints = NULL THEN NULL
    ELSE HandleAt(MidpointHandles(st.edgeMidpoints),
                  FirstWithin(MidpointHandles(st.edgeMidpoints),
                              coords.x, coords.y,
                              FMul(Real(45), FDiv(Q, st.viewScale))))

\* Lines 701-711 for the grid coordinate the inverse map returned.
CellOf(st, gridCoords) ==
    IF gridCoords = NULL THEN NULL
    ELSE LET col == Floor(The(gridCoords).x)
             row == Floor(The(gridCoords).y)
         IN  IF /\ col >= 0 /\ col < st.outputWidth
                /\ row >= 0 /\ row < st.outputHeight
             THEN Some([row |-> row, col |-> col])
             ELSE NULL

\* getCellAtPoint (lines 690-712): the state its calls of transformPoint
\* leave, and the cell it returns in that state.
probed(st) ==
    IF st.corners = NULL \/ ~st.showGrid THEN st ELSE transformed(st)

getCellAtPoint(st, coords) ==
    IF st.corners = NULL \/ ~st.showGrid THEN NULL
    ELSE CellOf(st, inverseTransformPoint(
                        coords.x, coords.y, st.corners, st.edgeMidpoints,
                        st.edgePointArrays, st.edgeArcTables,
                        st.outputWidth, st.outputHeight))

\* toggleCell (lines 714-720).  The cell is one of the row: the grid has
\* the dimensions getCellAtPoint checked the cell against.
toggleCell(st, col, row) ==
    IF row >= Len(st.cellStates) \/ col >= Len(st.cellStates[row + 1])
    THEN st
    ELSE drawOutputCanvas(drawCanvas(invalidateCaches(
             [st EXCEPT !.cellStates[row + 1][col + 1] = ~@])))

\* Lines 396-401 of handleMouseDown.
StartSelection(st, coords) ==
    IF st.corners # NULL THEN st
    ELSE [st EXCEPT !.isDragging = TRUE, !.dragStart = Some(coords),
                    !.showGrid = FALSE]

\* Lines 388-401 for the cell found under the pointer.
ClickCell(st, coords, cell) ==
    IF cell # NULL THEN toggleCell(st, The(cell).col, The(cell).row)
    ELSE StartSelection(st, coords)

\* Lines 387-401.
ClickGrid(st, coords) ==
    IF st.showGrid /\ st.selectionBox # NULL
    THEN ClickCell(probed(st), coords, getCellAtPoint(probed(st), coords))
    ELSE StartSelection(st, coords)

\* Lines 370-401 for the handles found under the pointer.
GrabHandle(st, coords, cornerIdx, midInfo) ==
    IF st.corners # NULL /\ cornerIdx # NULL
    THEN [st EXCEPT !.draggingCornerIndex = cornerIdx]
    ELSE IF st.corners # NULL /\ midInfo # NULL
    THEN [st EXCEPT !.draggingMidpointInfo = midInfo]
    ELSE ClickGrid(st, coords)

\* handleMouseDown (lines 355-402) at the canvas position p; pan is the
\* middle button or the left button with the Alt key.
handleMouseDown(st, p, pan) ==
    IF st.canvas = NULL THEN st
    ELSE IF pan
    THEN [st EXCEPT !.isPanning = TRUE, !.panLastX = p.x, !.panLastY = p.y]
    ELSE GrabHandle(st, getCanvasCoords(st, p),
                    getCornerAtPoint(st, getCanvasCoords(st, p)),
                    getMidpointAtPoint(st, getCanvasCoords(st, p)))

\* Lines 441-473: a handle is dragged to coords.
forgetDetection(st) ==
    [st EXCEPT !.detectedBlobs = <<>>, !.detectedColPositions = <<>>,
               !.detectedRowPositions = <<>>]

DragCorner(st, coords) ==
    drawCanvas(invalidatedInputCache(forgetDetection(
        [st EXCEPT !.corners[The(st.draggingCornerIndex) + 1] = coords])))

DragMidpoint(st, coords) ==
    drawCanvas(invalidatedInputCache(forgetDetection(
        [st EXCEPT !.edgeMidpoints[The(st.draggingMidpointInfo).edge + 1]
                                  [The(st.draggingMidpointInfo).index + 1] =
                       coords])))

\* Lines 476-485: the selection box from dragStart to coords.
DragSelection(st, coords) ==
    drawCanvas(
        [st EXCEPT !.selectionBox =
            Some([x      |-> Min(The(st.dragStart).x, coords.x),
                  y      |-> Min(The(st.dragStart).y, coords.y),
                  width  |-> Abs(coords.x - The(st.dragStart).x),
                  height |-> Abs(coords.y - The(st.dragStart).y)])])

\* Lines 489-508: the hovered cell changes and a frame is requested for it
\* unless one is pending.
requestHoverFrame(st) ==
    IF st.pendingHoverFrame # NULL THEN st
    ELSE [st EXCEPT !.pendingHoverFrame = Some(Len(st.frames) + 1),
                    !.frames = Append(@, "hover")]

HoverCell(st, cell) ==
    IF cell = st.hoveredCell THEN st
    ELSE requestHoverFrame([st EXCEPT !.hoveredCell = cell])

\* Lines 440-509 at the image position coords.
MoveTo(st, coords) ==
    IF st.draggingCornerIndex # NULL /\ st.corners # NULL
    THEN DragCorner(st, coords)
    ELSE IF st.draggingMidpointInfo # NULL /\ st.edgeMidpoints # NULL
    THEN DragMidpoint(st, coords)
    ELSE IF st.isDragging /\ st.dragStart # NULL
    THEN DragSelection(st, coords)
    ELSE IF st.showGrid /\ st.corners # NULL
    THEN HoverCell(probed(st), getCellAtPoint(probed(st), coords))
    ELSE st

\* handleMouseMove (lines 404-510) at the canvas position p.
handleMouseMove(st, p) ==
    IF st.canvas = NULL THEN st
    ELSE IF st.isPanning
    THEN drawCanvas([st EXCEPT !.viewOffsetX = @ + (p.x - st.panLastX),
                               !.viewOffsetY = @ + (p.y - st.panLastY),
                               !.panLastX = p.x,
                               !.panLastY = p.y])
    ELSE MoveTo(st, getCanvasCoords(st, p))

\* createMidpoints (lines 260-270) and initEdgeMidpoints (lines 272-282).
createMidpoints(start, end, count) ==
    [i \in 1..count |->
        Pt(start.x + (i * (end.x - start.x)) \div (count + 1),
           start.y + (i * (end.y - start.y)) \div (count + 1))]

MidpointsOf(cs, n) ==
    << createMidpoints(cs[1], cs[2], n), createMidpoints(cs[2], cs[3], n),
       createMidpoints(cs[4], cs[3], n), createMidpoints(cs[1], cs[4], n) >>

initEdgeMidpoints(st) ==
    IF st.corners = NULL THEN st
    ELSE [st EXCEPT !.edgeMidpoints =
                        MidpointsOf(st.corners, st.midpointsPerEdge)]

\* Lines 545-553: the corners of the selection box, TL, TR, BR, BL.
CornersOf(box) ==
    << Pt(box.x, box.y), Pt(box.x + box.width, box.y),
       Pt(box.x + box.width, box.y + box.height),
       Pt(box.x, box.y + box.height) >>

\* The end of a selection drag that makes a boundary of a box of any size.
FinishSelectionAnySize(st) ==
    IF st.selectionBox # NULL
    THEN render(initEdgeMidpoints(
             [st EXCEPT !.isDragging = FALSE, !.dragStart = NULL,
                        !.corners = CornersOf(The(st.selectionBox))]))
    ELSE [st EXCEPT !.isDragging = FALSE, !.dragStart = NULL]

\* Lines 537-555: the selection drag ends.
FinishSelection(st) ==
    IF /\ st.selectionBox # NULL
       /\ The(st.selectionBox).width > Real(10)
       /\ The(st.selectionBox).height > Real(10)
    THEN render(initEdgeMidpoints(
             [st EXCEPT !.isDragging = FALSE, !.dragStart = NULL,
                        !.corners = CornersOf(The(st.selectionBox))]))
    ELSE [st EXCEPT !.isDragging = FALSE, !.dragStart = NULL]

\* handleMouseUp (lines 512-556).
handleMouseUp(st) ==
    IF st.isPanning THEN [st EXCEPT !.isPanning = FALSE]
    ELSE IF st.draggingCornerIndex # NULL
    THEN drawCanvas([st EXCEPT !.draggingCornerIndex = NULL])
    ELSE IF st.draggingMidpointInfo # NULL
    THEN drawCanvas([st EXCEPT !.draggingMidpointInfo = NULL])
    ELSE IF st.isDragging THEN FinishSelection(st)
    ELSE st

\* handleMouseLeave (lines 558-565) after its call of handleMouseUp.
LeaveCanvas(st) ==
    IF st.hoveredCell = NULL THEN st
    ELSE drawOutputCanvas(drawCanvas([st EXCEPT !.hoveredCell = NULL]))

handleMouseLeave(st) == LeaveCanvas(handleMouseUp(st))

\* resetView (lines 587-592), the Fit button.
resetView(st) ==
    drawCanvas([st EXCEPT !.viewScale = Q, !.viewOffsetX = 0,
                          !.viewOffsetY = 0])

(***************************************************************************)
(* Upload, buttons, inputs, timers and animation frames                    *)
(***************************************************************************)

\* img.onload of handleImageUpload (lines 304-318).
handleImageUpload(st, img) ==
    render(forgetDetection(
        [st EXCEPT !.uploadedImage = Some(img), !.selectionBox = NULL,
                   !.corners = NULL, !.edgeMidpoints = NULL,
                   !.showGrid = FALSE, !.cellStates = <<>>,
                   !.viewScale = Q, !.viewOffsetX = 0, !.viewOffsetY = 0]))

\* The Reset button (lines 2246-2256).
resetBoundary(st) ==
    render(forgetDetection(
        [st EXCEPT !.corners = NULL, !.edgeMidpoints = NULL,
                   !.selectionBox = NULL, !.showGrid = FALSE,
                   !.cellStates = <<>>]))

\* Lines 2277-2286 and 2303-2312: with the grid shown, the grid is made
\* anew, all false, and the page rendered.
BlankGrid(st) ==
    IF ~st.showGrid THEN st
    \* Array(n) throws a RangeError for a negative n: the handler ends there.
    ELSE IF st.outputHeight < 0 \/ st.outputWidth < 0 THEN st
    ELSE render([st EXCEPT !.cellStates =
                    [r \in 1..st.outputHeight |->
                        [c \in 1..st.outputWidth |-> FALSE]]])

\* parseInt(value) || fallback, for a field holding the integer n or, as
\* NULL, no number.
ParsedOr(n, fallback) ==
    IF n = NULL \/ n = Some(0) THEN fallback ELSE The(n)

\* The Grid Width and Grid Height inputs (lines 2272-2287, 2298-2313).
widthInput(st, n) == BlankGrid([st EXCEPT !.outputWidth = ParsedOr(n, 80)])
heightInput(st, n) == BlankGrid([st EXCEPT !.outputHeight = ParsedOr(n, 12)])

\* reinitMidpoints (lines 284-294) and the rest of lines 2336-2343.
ReinitBoundary(st) ==
    IF st.corners = NULL THEN st
    ELSE render(invalidateCaches(forgetDetection(
             [st EXCEPT !.edgeMidpoints =
                            MidpointsOf(st.corners, st.midpointsPerEdge)])))

\* The Edge Pts input (lines 2326-2344).
edgePtsInput(st, n) ==
    ReinitBoundary([st EXCEPT !.midpointsPerEdge =
                                  Max(0, Min(5, ParsedOr(n, 0)))])

\* The timers a page may hold at once.
MaxTimers == 2

\* A handler that lets the pending timer be.
keepPending(st) == st

\* clearTimeout (lines 2366-2368, 2399-2401, 2432-2434).
clearPending(st) ==
    IF st.thresholdDebounceTimer = NULL THEN st
    ELSE [st EXCEPT !.timers = @ \ {The(st.thresholdDebounceTimer)}]

\* setTimeout (lines 2369-2375, 2402-2408, 2435-2441): the callback is
\* pending under an id no other timer has or just had.
FreshTimers(st) ==
    {id \in 1..MaxTimers :
        id \notin st.timers /\ Some(id) # st.thresholdDebounceTimer}

\* A handler that schedules nothing.
noTimeout(st) == st

setTimeout(st) ==
    [st EXCEPT !.timers = @ \cup {Least(FreshTimers(st))},
               !.thresholdDebounceTimer = Some(Least(FreshTimers(st)))]

\* The three sliders (lines 2362-2376, 2395-2409, 2428-2442).
sensitivityInput(st, v) ==
    setTimeout(clearPending([st EXCEPT !.detectionSensitivity = v]))
neighborhoodInput(st, v) ==
    setTimeout(clearPending([st EXCEPT !.neighborhoodRadius = v]))
punchSizeInput(st, v) ==
    setTimeout(clearPending([st EXCEPT !.blobSizePercent = v]))

\* The callback of the timer id (lines 2369-2372).
timerCallback(st, id) ==
    autoDetect([st EXCEPT !.timers = @ \ {id},
                          !.thresholdDebounceTimer = NULL])

\* setupCanvas (lines 2585-2610).  The canvas element is in the page once
\* an image is there (line 2486), the output canvas while a grid is shown
\* (lines 2549-2559); every change of either condition renders the page.
setupCanvas(st) ==
    IF st.uploadedImage = NULL THEN st
    ELSE drawOutputCanvas(drawCanvas(invalidateCaches(
             [st EXCEPT !.canvas = Some([width  |-> ImageWidth,
                                         height |-> ImageHeight]),
                        !.outputCanvas =
                            @ \/ (st.showGrid /\ st.cellStates # <<>>)])))

\* The callback of lines 500-504.
hoverFrame(st) ==
    drawOutputCanvas(drawCanvas([st EXCEPT !.pendingHoverFrame = NULL]))

\* The callbacks requested for an animation frame run in the order they
\* were requested.
RECURSIVE runFrames(_, _)
runFrames(st, callbacks) ==
    IF callbacks = <<>> THEN st
    ELSE runFrames(IF Head(callbacks) = "setupCanvas" THEN setupCanvas(st)
                   ELSE hoverFrame(st),
                   Tail(callbacks))

(***************************************************************************)
(* Spec: the application from its construction on.  The pointer visits a   *)
(* few positions of the canvas, the inputs take a few values, a run is     *)
(* made for grids of at most MaxCells cells, the view is panned by at most *)
(* MaxPan pixels and no event is taken while MaxFrames callbacks wait for  *)
(* the animation frame.                                                    *)
(***************************************************************************)
MaxCells == 1
MaxFrames == 2
MaxPan == 149

Images == {1}

\* Canvas positions of the pointer: the upper left pixel, a point near it
\* and the lower right pixel.
Positions == {Pt(0, 0), Pt(Real(149), Real(109))}

WidthInputs == {Some(1)}
HeightInputs == {Some(1)}
EdgePtsInputs == {Some(1)}
SensitivityInputs == {50, 75}
NeighborhoodInputs == {7}
PunchSizeInputs == {50}

Init ==
    /\ Constructed(72, 95, 75, 7, 50)
    /\ blobs = <<>>
    /\ rectified = NULL
    /\ runs = {}
    /\ mapped = NULL

\* No event is taken while MaxFrames callbacks wait.
Ready == Len(frames) < MaxFrames

\* The pointer holds something on the canvas: a selection, a handle or
\* the view.
Held ==
    \/ isDragging
    \/ draggingCornerIndex # NULL
    \/ draggingMidpointInfo # NULL
    \/ isPanning

\* There is one pointer: it presses a button of the canvas while it holds
\* nothing, releases what it holds, and works the other controls of the
\* page while it holds nothing on the canvas.
Free == Ready /\ ~Held

\* The pointer is over the canvas: it is not within the 30 ms after it
\* moved a slider.
OverCanvas == uploadedImage # NULL /\ timers = {}

\* The event leaves the state st; the view stays within MaxPan pixels.
Within(s) ==
    /\ Abs(s.viewOffsetX) <= Real(MaxPan)
    /\ Abs(s.viewOffsetY) <= Real(MaxPan)

Taken(st) == \E s \in {st} : Within(s) /\ FieldsBecome(s)

\* Twice the signed area of the triangle a, b, c in whole pixels.
Turn(a, b, c) ==
    ((b.x - a.x) \div Q) * ((c.y - a.y) \div Q)
        - ((b.y - a.y) \div Q) * ((c.x - a.x) \div Q)

\* The pointer drags a corner only to where the boundary stays a convex
\* quadrilateral, which keeps the Newton iteration of the inverse map
\* within the numbers of the model.
Convex(cs) ==
    cs # NULL =>
        /\ Turn(cs[1], cs[2], cs[3]) > 0
        /\ Turn(cs[2], cs[3], cs[4]) > 0
        /\ Turn(cs[3], cs[4], cs[1]) > 0
        /\ Turn(cs[4], cs[1], cs[2]) > 0

\* The image is uploaded once the grid dimensions are small enough for a
\* run of the model.
Upload(img) ==
    /\ Free
    /\ outputWidth * outputHeight <= MaxCells
    /\ Taken(handleImageUpload(State, img))

\* The canvas takes pointer events once an image is there (line 2486).
MouseDown(p) ==
    /\ OverCanvas
    /\ Free
    /\ Taken(handleMouseDown(State, p, FALSE))

\* The middle button, or the left button with the Alt key, goes down.
PanDown(p) ==
    /\ OverCanvas
    /\ Free
    /\ Taken(handleMouseDown(State, p, TRUE))

MouseMove(p) ==
    /\ OverCanvas
    /\ Ready
    /\ \E s \in {handleMouseMove(State, p)} :
           Convex(s.corners) /\ Within(s) /\ FieldsBecome(s)

MouseUp ==
    /\ OverCanvas
    /\ Ready
    /\ Held
    /\ Taken(handleMouseUp(State))

MouseLeave ==
    /\ OverCanvas
    /\ Ready
    /\ Taken(handleMouseLeave(State))

\* The buttons are enabled as of the last render (lines 2235, 2241,
\* 2257); every change of what enables them renders the page.
\* A run is made while at most MaxFrames callbacks wait.
ClickAutoDetect ==
    /\ corners # NULL
    /\ ~Held
    /\ Len(frames) <= MaxFrames
    /\ Taken(autoDetect(State))

ClickFit ==
    /\ uploadedImage # NULL
    /\ Free
    /\ Taken(resetView(State))

ClickReset ==
    /\ corners # NULL
    /\ Free
    /\ Taken(resetBoundary(State))

WidthInput(n) ==
    /\ Free
    /\ Taken(widthInput(State, n))

HeightInput(n) ==
    /\ Free
    /\ Taken(heightInput(State, n))

EdgePtsInput(n) ==
    /\ Free
    /\ Taken(edgePtsInput(State, n))


\* The sliders are enabled while a boundary and a grid are there (lines
\* 2361, 2394, 2427).
SlidersEnabled == corners # NULL /\ showGrid

SensitivityInput(v) ==
    /\ SlidersEnabled
    /\ v # detectionSensitivity
    /\ FreshTimers(clearPending(State)) # {}
    /\ Free
    /\ Taken(sensitivityInput(State, v))

NeighborhoodInput(v) ==
    /\ SlidersEnabled
    /\ FreshTimers(clearPending(State)) # {}
    /\ Free
    /\ Taken(neighborhoodInput(State, v))

PunchSizeInput(v) ==
    /\ SlidersEnabled
    /\ FreshTimers(clearPending(State)) # {}
    /\ Free
    /\ Taken(punchSizeInput(State, v))

TimerFires(id) ==
    /\ id \in timers
    /\ Taken(timerCallback(State, id))

AnimationFrame ==
    /\ frames # <<>>
    /\ Becomes(runFrames([State EXCEPT !.frames = <<>>], frames))

Next ==
    \/ \E img \in Images : Upload(img)
    \/ \E p \in Positions : MouseDown(p)
    \/ \E p \in Positions : MouseMove(p)
    \/ MouseUp
    \/ MouseLeave
    \/ ClickAutoDetect
    \/ ClickReset
    \/ \E n \in WidthInputs : WidthInput(n)
    \/ \E n \in HeightInputs : HeightInput(n)
    \/ \E n \in EdgePtsInputs : EdgePtsInput(n)
    \/ \E v \in SensitivityInputs : SensitivityInput(v)
    \/ \E v \in NeighborhoodInputs : NeighborhoodInput(v)
    \/ \E v \in PunchSizeInputs : PunchSizeInput(v)
    \/ \E id \in 1..MaxTimers : TimerFires(id)
    \/ AnimationFrame

Spec == Init /\ [][Next]_vars


\* A step in which a timer callback runs: nothing else empties timers.
TimerFired == timers # {} /\ timers' = {}

\* The pointer moves while it holds something.
Drag(p) ==
    /\ Held
    /\ MouseMove(p)

\* SpecSelect: boundaries are selected from the upper left pixel to a
\* point near it or to the lower right pixel, the image is uploaded again
\* and runs are made.
Origin == Pt(0, 0)
Targets == {Pt(Real(30), Real(22)), Pt(Real(149), Real(109))}

NextSelect ==
    \/ \E img \in Images : Upload(img)
    \/ MouseDown(Origin)
    \/ \E p \in Targets : Drag(p)
    \/ MouseUp
    \/ ClickAutoDetect
    \/ ClickReset
    \/ \E n \in WidthInputs : WidthInput(n)
    \/ \E n \in HeightInputs : HeightInput(n)
    \/ AnimationFrame

SpecSelect == Init /\ [][NextSelect]_vars

\* SpecView: the view is panned from the upper left pixel to the lower
\* right pixel, a boundary is selected in it and runs are made.
Corner == Pt(Real(149), Real(109))

NextView ==
    \/ \E img \in Images : Upload(img)
    \/ PanDown(Origin)
    \/ MouseDown(Origin)
    \/ Drag(Corner)
    \/ MouseUp
    \/ ClickAutoDetect
    \/ ClickFit
    \/ \E n \in WidthInputs : WidthInput(n)
    \/ \E n \in HeightInputs : HeightInput(n)
    \/ AnimationFrame

SpecView == Init /\ [][NextView]_vars

(***************************************************************************)
(* The orchestrator's properties                                           *)
(***************************************************************************)
\* C4: autoDetect invoked while the source image or the boundary is absent
\* changes neither the grid, showGrid, the stored blobs, the stored axes
\* nor a cache flag.
AbsentInputsNoOp ==
    [][(TimerFired /\ (uploadedImage = NULL \/ corners = NULL))
        => UNCHANGED <<cellStates, showGrid, detectedBlobs,
                       detectedColPositions, detectedRowPositions,
                       inputCacheDirty, outputCacheDirty,
                       selectionPixelsDirty, edgeArcTablesDirty>>]_vars

\* The callback ran after the boundary was reset.
InvokedWithoutBoundary ==
    uploadedImage # NULL /\ corners = NULL /\ NULL \in runs /\ timers = {}

\* A detection parameter changes.
ParameterChanged ==
    \/ detectionSensitivity' # detectionSensitivity
    \/ neighborhoodRadius' # neighborhoodRadius
    \/ blobSizePercent' # blobSizePercent

\* C9 as stated: every change of the image, the boundary, the grid
\* dimensions or a parameter that leaves an image and a boundary leaves a
\* run scheduled.
EveryChangeSchedulesRun ==
    [][(InputsOf(State)' # InputsOf(State)
            /\ uploadedImage' # NULL /\ corners' # NULL)
        => timers' # {}]_vars

\* C9: a change of a detection parameter leaves a run scheduled, and the
\* callback of a scheduled run invokes autoDetect on the inputs as they
\* are then.
ParameterChangeRuns ==
    /\ [][ParameterChanged => timers' # {}]_vars
    /\ [][TimerFired => (runs' # {} /\ InputsOf(State)' = InputsOf(State))]_vars

\* The run scheduled by a change of the sensitivity was made.
RanAfterParameterChange ==
    /\ detectionSensitivity = 50
    /\ timers = {}
    /\ showGrid
    /\ \E grid \in runs : grid # NULL

\* C10: at most one detection timer is pending, the one the page holds;
\* when it fires, the one run of the burst is made on the parameters as
\* the last change left them.
DebouncedRun ==
    /\ [](/\ Cardinality(timers) <= 1
          /\ timers = (IF thresholdDebounceTimer = NULL THEN {}
                       ELSE {The(thresholdDebounceTimer)}))
    /\ [][TimerFired
            => /\ runs' # {}
               /\ UNCHANGED <<detectionSensitivity, neighborhoodRadius,
                              blobSizePercent>>]_vars

\* A second change of a burst replaced the timer of the first.
TimerReplaced == thresholdDebounceTimer = Some(2) /\ timers = {2}

\* C7: the runs made on the same image, boundary, grid dimensions and
\* parameters have the same outcome.
RunsAgree == Cardinality(runs) <= 1

\* C3: a run started with an image and a boundary yields a grid.
RunYieldsGrid ==
    (uploadedImage # NULL /\ corners # NULL) => NULL \notin runs

(***************************************************************************)
(* The number inputs, with values outside the documented ranges            *)
(***************************************************************************)
\* What a number input may hold: no number (NULL) or any integer.
RawNumbers == {NULL} \cup {Some(n) : n \in {-3, 0, 1, 2, 6, 80}}

NextInputs ==
    \E n \in RawNumbers : WidthInput(n) \/ HeightInput(n) \/ EdgePtsInput(n)

SpecInputs == Init /\ [][NextInputs]_vars

\* C11 as stated: after any input event the grid dimensions are positive
\* integers, the sensitivity lies in 0..100, the neighborhood radius in
\* 1..20, the punch size in 5..100 and the midpoints per edge in 0..5.
ParametersInRange ==
    /\ outputWidth >= 1
    /\ outputHeight >= 1
    /\ detectionSensitivity \in 0..100
    /\ neighborhoodRadius \in 1..20
    /\ blobSizePercent \in 5..100
    /\ midpointsPerEdge \in 0..5

(***************************************************************************)
(* Detection followed by a change of the grid width or of the boundary     *)
(***************************************************************************)
NextResize ==
    \/ \E img \in Images : Upload(img)
    \/ MouseDown(Origin)
    \/ Drag(Corner)
    \/ MouseUp
    \/ ClickAutoDetect
    \/ \E n \in {Some(1), Some(2)} : WidthInput(n)
    \/ HeightInput(Some(1))
    \/ AnimationFrame

SpecResize == Init /\ [][NextResize]_vars

\* No cell of the stored grid is punched.
NoCellPunched ==
    \A r \in DOMAIN cellStates : \A c \in DOMAIN cellStates[r] :
        ~cellStates[r][c]

\* C12 as stated: a step that changes the image, the boundary, the grid
\* dimensions or a detection parameter leaves nothing stored that was
\* derived from the previous inputs: no accepted blob, no axis, no punched
\* cell.
DerivedInvalidatedTogether ==
    [][InputsOf(State)' # InputsOf(State)
        => /\ detectedBlobs' = <<>>
           /\ detectedColPositions' = <<>>
           /\ detectedRowPositions' = <<>>
           /\ NoCellPunched']_vars

(***************************************************************************)
(* Runs without an accepted blob (SpecLattice)                             *)
(***************************************************************************)
\* C13: a run that was given no blob stores a grid without a punched cell
\* and, on each axis, the centres of the N equal bands: (i + 0.5) grid units
\* for i = 0..N-1, which is (i + 0.5) * L / N raster pixels, and
\* 5, 15, ..., 95 for L = 100 and N = 10.
UniformFallback ==
    /\ (showGrid /\ detectedBlobs = <<>>) =>
           /\ NoCellPunched
           /\ detectedColPositions
                = [i \in 1..outputWidth |-> Real(i - 1) + (Q \div 2)]
           /\ detectedRowPositions
                = [i \in 1..outputHeight |-> Real(i - 1) + (Q \div 2)]
    /\ findPeaks(<<>>, 100, 10, MinSeparation)
         = [i \in 1..10 |-> Real(10 * i - 5)]

\* A run of three columns and two rows has completed without a blob.
UniformFallbackWitness ==
    /\ showGrid
    /\ detectedBlobs = <<>>
    /\ outputWidth = 3
    /\ outputHeight = 2
    /\ Len(cellStates) = 2

(***************************************************************************)
(* SpecShapes: the pipeline from the rectified raster on, for a raster of  *)
(* one column and two rows that shows one black rectangle on white paper.  *)
(***************************************************************************)
\* Width and height of the rectangle, in raster pixels.
ShapeSizes == {<<5, 14>>, <<2, 14>>, <<2, 11>>, <<2, 10>>, <<4, 4>>}
ShapePunchSizes == {5, 50}

\* The rectangle has its top left pixel at (3, 3).
ShapeRaster(w, h, size) ==
    [data   |-> [i \in 1..(w * cellPx * h * cellPx) |->
                    LET x == (i - 1) % (w * cellPx)
                        y == (i - 1) \div (w * cellPx)
                    IN  IF /\ x >= 3 /\ x < 3 + size[1]
                           /\ y >= 3 /\ y < 3 + size[2]
                        THEN 0 ELSE 255],
     width  |-> w * cellPx,
     height |-> h * cellPx]

InitShapes ==
    /\ \E percent \in ShapePunchSizes : Constructed(1, 2, 75, 7, percent)
    /\ \E size \in ShapeSizes :
           rectified = Some(ShapeRaster(outputWidth, outputHeight, size))
    /\ blobs = <<>>
    /\ runs = {}
    /\ mapped = NULL

SpecShapes == InitShapes /\ [][NextPipe]_vars

\* The blobs of the mask of a recorded run, before the filter.
BlobsOfMask(run) ==
    connectedComponentLabeling(run.binary, The(rectified).width,
                               The(rectified).height)

\* The bounding box of a blob, <<width, height>>.
BoxOf(blob) == <<blob.maxX - blob.minX + 1, blob.maxY - blob.minY + 1>>

\* Math.max(blobW, blobH) / Math.max(1, Math.min(blobW, blobH)) > 5
TooThin(blob) ==
    Max(BoxOf(blob)[1], BoxOf(blob)[2])
        > 5 * Max(1, Min(BoxOf(blob)[1], BoxOf(blob)[2]))

\* No cell of the grid of a recorded run is punched.
NonePunched(run) ==
    \A r \in DOMAIN run.cellStates : \A c \in DOMAIN run.cellStates[r] :
        ~run.cellStates[r][c]

\* C14 as stated: a run whose mask holds a blob 5 pixels wide and 14 tall
\* ends with a grid that is all false.
TallPatternRejected ==
    \A run \in runs :
        (\E k \in DOMAIN BlobsOfMask(run) : BoxOf(BlobsOfMask(run)[k]) = <<5, 14>>)
            => NonePunched(run)

\* C14: a blob whose longer side is more than five times its shorter side
\* is not among the accepted blobs, whatever its area, and a run whose mask
\* holds only such blobs ends with a grid that is all false.
ThinBlobsRejected ==
    \A run \in runs :
        LET found == BlobsOfMask(run)
        IN  /\ \A k \in DOMAIN found :
                   TooThin(found[k])
                       => ~BlobAccepted(found[k], cellPx, blobSizePercent)
            /\ (found # <<>> /\ \A k \in DOMAIN found : TooThin(found[k]))
                   => NonePunched(run)

\* A run has found the rectangle of 2 by 11 pixels, whose area lies in the
\* area band, and nothing else.
ThinBlobsRejectedWitness ==
    \E run \in runs :
        /\ Len(BlobsOfMask(run)) = 1
        /\ BoxOf(BlobsOfMask(run)[1]) = <<2, 11>>
        /\ AcceptedByArea(BlobsOfMask(run)[1], cellPx, blobSizePercent)

(***************************************************************************)
(* SpecIdentity: transformPoint for a boundary that is the rectangle of    *)
(* the whole image, with 0 to 5 midpoints per edge where createMidpoints   *)
(* puts them.                                                              *)
(***************************************************************************)
\* <<tl, tr, br, bl>> of the rectangle of an image 120 pixels wide and 60
\* high: every evenly spaced midpoint and every sample of the arc-length
\* tables is then a decimal of at most six places.
ImageRectangle ==
    << Pt(0, 0), Pt(Real(120), 0), Pt(Real(120), Real(60)), Pt(0, Real(60)) >>

\* imW and imH.
IdentityWidth == Floor(ImageRectangle[3].x)
IdentityHeight == Floor(ImageRectangle[3].y)

\* u and v in thousandths, covering [0, 1] on and off the samples of the
\* arc-length tables.
IdentityFractions == {0, 5, 333, 500, 875, 1000}

InitIdentity ==
    /\ \E n \in 0..5 :
           InitialisedWith(IdentityWidth \div cellPx, IdentityHeight \div cellPx,
                           75, 7, 50, ImageRectangle,
                           MidpointsOf(ImageRectangle, n), n)
    /\ blobs = <<>>
    /\ rectified = NULL
    /\ runs = <<>>
    /\ mapped = NULL

\* transformPoint(u * outputWidth, v * outputHeight), u and v in thousandths.
IdentityAt(u, v) ==
    /\ mapped = NULL
    /\ TablesForTransform
    /\ mapped' = Some([u  |-> Real(u) \div 1000,
                       v  |-> Real(v) \div 1000,
                       pt |-> transformPoint(
                                   (Real(u) \div 1000) * outputWidth,
                                   (Real(v) \div 1000) * outputHeight,
                                   corners, edgeMidpoints, edgePointArrays',
                                   edgeArcTables', outputWidth, outputHeight)])
    /\ MapUnchanged

NextIdentity ==
    \E u \in IdentityFractions, v \in IdentityFractions : IdentityAt(u, v)

SpecIdentity == InitIdentity /\ [][NextIdentity]_vars

\* C15: for the image rectangle as boundary, W = imW / cellPx and
\* H = imH / cellPx, transformPoint(u * W, v * H) is within 1e-6 of
\* (u * imW, v * imH) in both components, for 0 to 5 midpoints per edge.
IdentityMap ==
    mapped # NULL =>
        /\ The(mapped).pt # NULL
        /\ Abs(The(mapped).pt.x - The(mapped).u * IdentityWidth) <= 1
        /\ Abs(The(mapped).pt.y - The(mapped).v * IdentityHeight) <= 1

\* A point off the samples of the tables has been mapped through a boundary
\* of five midpoints per edge.
IdentityMapWitness ==
    /\ mapped # NULL
    /\ midpointsPerEdge = 5
    /\ Len(edgePointArrays[1]) = 7
    /\ The(mapped).u = 333000
    /\ The(mapped).v = 875000

(***************************************************************************)
(* SpecLabel: connectedComponentLabeling over every mask of a few small    *)
(* sizes.                                                                  *)
(***************************************************************************)
\* <<w, h>> of the masks.
MaskSizes == {<<5, 2>>, <<3, 3>>, <<4, 3>>}

InitLabel ==
    /\ Constructed(1, 1, 75, 7, 50)
    /\ blobs = <<>>
    /\ rectified = NULL
    /\ runs = <<>>
    /\ \E size \in MaskSizes :
           \E binary \in [1..(size[1] * size[2]) -> {0, 1}] :
               mapped = Some([binary |-> binary, width |-> size[1],
                              height |-> size[2], labelled |-> FALSE,
                              blobs |-> <<>>])

\* connectedComponentLabeling(binary, w, h)
LabelMask ==
    /\ mapped # NULL
    /\ ~The(mapped).labelled
    /\ mapped' = Some([The(mapped) EXCEPT
                          !.labelled = TRUE,
                          !.blobs = connectedComponentLabeling(
                                        The(mapped).binary, The(mapped).width,
                                        The(mapped).height)])
    /\ MapUnchanged
    /\ UNCHANGED <<edgeArcTables, edgePointArrays, edgeArcTablesDirty>>

SpecLabel == InitLabel /\ [][LabelMask]_vars

\* The foreground pixels of the mask at hand, as <<x, y>>.
MaskPixels ==
    {<<(i - 1) % The(mapped).width, (i - 1) \div The(mapped).width>> :
        i \in {j \in DOMAIN The(mapped).binary : The(mapped).binary[j] = 1}}

\* Two pixels share an edge.
Adjacent4(p, q) == Abs(p[1] - q[1]) + Abs(p[2] - q[2]) = 1

\* The least set of foreground pixels that holds S and is closed under
\* Adjacent4.
RECURSIVE Grown(_)
Grown(S) ==
    LET more == S \cup {q \in MaskPixels : \E p \in S : Adjacent4(p, q)}
    IN  IF more = S THEN S ELSE Grown(more)

\* The 4-connected components of the foreground.
Components == {Grown({p}) : p \in MaskPixels}

RECURSIVE SumOver(_, _)
SumOver(S, k) ==
    IF S = {} THEN 0
    ELSE LET p == CHOOSE q \in S : TRUE
         IN  p[k] + SumOver(S \ {p}, k)

\* The blob of a component: pixel count, tight bounding box and centroid.
BlobOf(S) ==
    [centerX |-> Ratio(SumOver(S, 1), Cardinality(S)),
     centerY |-> Ratio(SumOver(S, 2), Cardinality(S)),
     area |-> Cardinality(S),
     minX |-> Least({p[1] : p \in S}), maxX |-> Greatest({p[1] : p \in S}),
     minY |-> Least({p[2] : p \in S}), maxY |-> Greatest({p[2] : p \in S})]

\* C16: the blobs returned for a mask are, one for one, the 4-connected
\* components of its foreground, each with the component's pixel count,
\* tight bounding box and centroid.
OneBlobPerComponent ==
    (mapped # NULL /\ The(mapped).labelled) =>
        /\ Len(The(mapped).blobs) = Cardinality(Components)
        /\ {The(mapped).blobs[k] : k \in DOMAIN The(mapped).blobs}
             = {BlobOf(S) : S \in Components}

\* A mask has been labelled in which two runs of one component meet only in
\* a later row (a merge of two provisional labels) while another component
\* touches it only diagonally.
OneBlobPerComponentWitness ==
    /\ mapped # NULL
    /\ The(mapped).labelled
    /\ The(mapped).width = 5
    /\ The(mapped).binary = <<1, 0, 1, 1, 0,
                              1, 1, 1, 0, 1>>
    /\ Len(The(mapped).blobs) = 2

(***************************************************************************)
(* SpecThreshold: adaptiveThreshold over every raster of a few small sizes *)
(* and gray levels, for several window radii and sensitivities.            *)
(***************************************************************************)
\* <<w, h>> of the rasters.
RasterSizes == {<<3, 2>>, <<2, 3>>}
GrayLevels == {0, 90, 160, 255}
WindowRadii == {0, 1, 3}
Sensitivities == {0, 60}

InitThreshold ==
    /\ Constructed(1, 1, 75, 7, 50)
    /\ blobs = <<>>
    /\ runs = <<>>
    /\ mapped = NULL
    /\ \E size \in RasterSizes :
           \E data \in [1..(size[1] * size[2]) -> GrayLevels] :
               rectified = Some([data |-> data, width |-> size[1],
                                 height |-> size[2]])

\* adaptiveThreshold(gray, w, h, radius, sensitivity)
ThresholdAt(radius, sensitivity) ==
    /\ mapped = NULL
    /\ mapped' = Some([windowRadius |-> radius, sensitivity |-> sensitivity,
                       binary |-> adaptiveThreshold(
                                      The(rectified).data, The(rectified).width,
                                      The(rectified).height, radius,
                                      sensitivity)])
    /\ MapUnchanged
    /\ UNCHANGED <<edgeArcTables, edgePointArrays, edgeArcTablesDirty>>

NextThreshold ==
    \E radius \in WindowRadii, sensitivity \in Sensitivities :
        ThresholdAt(radius, sensitivity)

SpecThreshold == InitThreshold /\ [][NextThreshold]_vars

\* The pixels <<x, y>> of the raster within radius of (x, y) in both
\* directions.
WindowOf(x, y, radius) ==
    {p \in (0..(The(rectified).width - 1)) \X (0..(The(rectified).height - 1)) :
        Abs(p[1] - x) <= radius /\ Abs(p[2] - y) <= radius}

RECURSIVE GraySum(_)
GraySum(S) ==
    IF S = {} THEN 0
    ELSE LET p == CHOOSE q \in S : TRUE
         IN  The(rectified).data[p[2] * The(rectified).width + p[1] + 1]
               + GraySum(S \ {p})

\* gray(x, y) < m - sensitivity for the mean m of the window, by direct
\* summation and without a division.
BelowLocalMean(x, y, radius, sensitivity) ==
    (The(rectified).data[y * The(rectified).width + x + 1] + sensitivity)
        * Cardinality(WindowOf(x, y, radius))
      < GraySum(WindowOf(x, y, radius))

\* C17: the mask has a 1 exactly at the pixels whose gray level is below
\* the mean of their clipped window less the sensitivity, the mean taken by
\* direct summation, and a 0 elsewhere.
MaskIsBelowLocalMean ==
    mapped # NULL =>
        /\ Len(The(mapped).binary) = Len(The(rectified).data)
        /\ \A i \in DOMAIN The(mapped).binary :
               The(mapped).binary[i]
                 = IF BelowLocalMean((i - 1) % The(rectified).width,
                                     (i - 1) \div The(rectified).width,
                                     The(mapped).windowRadius,
                                     The(mapped).sensitivity)
                   THEN 1 ELSE 0

\* A raster has been thresholded with a window that is clipped at the
\* border and does not cover the raster, with both outcomes in the mask.
MaskIsBelowLocalMeanWitness ==
    /\ mapped # NULL
    /\ The(mapped).windowRadius = 1
    /\ The(mapped).sensitivity = 60
    /\ \E i, j \in DOMAIN The(mapped).binary :
           The(mapped).binary[i] = 1 /\ The(mapped).binary[j] = 0

(***************************************************************************)
(* SpecAssign: assignBlobsToGrid for given axes and every short list of    *)
(* blobs.                                                                  *)
(***************************************************************************)
\* Axes, in raster pixels.
ColumnAxes == {<<Real(3), Real(13)>>, <<Real(4), Real(16), Real(25)>>}
RowAxes == {<<Real(5)>>, <<Real(5), Real(15)>>}

\* Centroids, in raster pixels: on a centre, midway between two, just
\* inside and exactly at 0.6 spacings from one; the rows are a millionth
\* off the 0.6 pixels around the single centre at 5, which 5.6 - 5 does
\* not meet in doubles.
AssignXs == {Real(3), Real(8), Real(19) - 1, Real(19), Real(10) + 3 * (Q \div 10)}
AssignYs == {Real(5), Real(5) + Q \div 2, Real(5) + 6 * (Q \div 10) + 1,
             Real(9)}

InitAssign ==
    /\ \E cols \in ColumnAxes, rows \in RowAxes :
           /\ Constructed(Len(cols), Len(rows), 75, 7, 50)
           /\ mapped = Some([colPositions |-> cols, rowPositions |-> rows,
                             assigned |-> FALSE, cellStates |-> <<>>])
    /\ blobs = <<>>
    /\ rectified = NULL
    /\ runs = <<>>

\* One more blob for the call.
PassToAssign(cx, cy) ==
    /\ ~The(mapped).assigned
    /\ FilterPasses(cx, cy)

\* assignBlobsToGrid(blobs, rowPositions, colPositions)
AssignToAxes ==
    /\ ~The(mapped).assigned
    /\ mapped' = Some([The(mapped) EXCEPT
                          !.assigned = TRUE,
                          !.cellStates = assignBlobsToGrid(
                                             blobs, The(mapped).rowPositions,
                                             The(mapped).colPositions,
                                             outputWidth, outputHeight)])
    /\ MapUnchanged
    /\ UNCHANGED <<edgeArcTables, edgePointArrays, edgeArcTablesDirty>>

NextAssign ==
    \/ \E cx \in AssignXs, cy \in AssignYs : PassToAssign(cx, cy)
    \/ AssignToAxes

SpecAssign == InitAssign /\ [][NextAssign]_vars

\* r is the first index at which positions comes nearest to center.
FirstNearest(center, positions, r) ==
    \A k \in DOMAIN positions :
        /\ Abs(center - positions[r]) <= Abs(center - positions[k])
        /\ k < r => Abs(center - positions[r]) < Abs(center - positions[k])

\* The distance from center to positions[r] is strictly below 0.6 times the
\* average gap (last - first) / (n - 1), or 0.6 for a single position.
WithinReach(center, positions, r) ==
    IF Len(positions) > 1
    THEN 10 * Abs(center - positions[r]) * (Len(positions) - 1)
           < 6 * (positions[Len(positions)] - positions[1])
    ELSE 10 * Abs(center - positions[r]) < 6 * Q

\* C18: a cell is true exactly if some blob has the cell's row as its
\* nearest row centre and the cell's column as its nearest column centre,
\* both strictly nearer than 0.6 times the average gap of the axis.
CellIffBlobInReach ==
    (mapped # NULL /\ The(mapped).assigned) =>
        /\ Len(The(mapped).cellStates) = outputHeight
        /\ \A r \in 1..outputHeight :
               /\ Len(The(mapped).cellStates[r]) = outputWidth
               /\ \A c \in 1..outputWidth :
                      The(mapped).cellStates[r][c]
                        <=> \E k \in DOMAIN blobs :
                             /\ FirstNearest(blobs[k].centerY,
                                             The(mapped).rowPositions, r)
                             /\ FirstNearest(blobs[k].centerX,
                                             The(mapped).colPositions, c)
                             /\ WithinReach(blobs[k].centerY,
                                            The(mapped).rowPositions, r)
                             /\ WithinReach(blobs[k].centerX,
                                            The(mapped).colPositions, c)

\* Two blobs have been assigned to the columns at 3 and 13: one exactly 6
\* pixels (0.6 gaps) right of the second column, one a millionth nearer;
\* only the second column of the first row is punched.
CellIffBlobInReachWitness ==
    /\ mapped # NULL
    /\ The(mapped).assigned
    /\ The(mapped).colPositions = <<Real(3), Real(13)>>
    /\ \E k \in DOMAIN blobs : blobs[k].centerX = Real(19)
    /\ \E k \in DOMAIN blobs : blobs[k].centerX = Real(19) - 1
    /\ \A k \in DOMAIN blobs : blobs[k].centerY = Real(5)
    /\ The(mapped).cellStates[1] = <<FALSE, TRUE>>

(***************************************************************************)
(* A boundary folded onto its diagonal (lines 436-445, 690-720, 811-845)   *)
(***************************************************************************)
\* The pointer drags what it holds to p, wherever that leaves a corner.
DragFreely(p) ==
    /\ Held
    /\ OverCanvas
    /\ Ready
    /\ Taken(handleMouseMove(State, p))

\* The left button goes down on the canvas once the boundary is set to have
\* straight edges, which keeps the Newton iteration of the inverse map
\* within the numbers of the model.
PressStraight(p) ==
    /\ midpointsPerEdge = 0
    /\ MouseDown(p)

\* A boundary is selected over the whole image for a grid of one cell and
\* no midpoints, a run shows the grid (line 1366), and the upper left
\* corner is dragged onto the lower right one; the pointer clicks the upper
\* left pixel.
NextFold ==
    \/ \E img \in Images : Upload(img)
    \/ PressStraight(Origin)
    \/ DragFreely(Corner)
    \/ MouseUp
    \/ ClickAutoDetect
    \/ WidthInput(Some(1))
    \/ HeightInput(Some(1))
    \/ EdgePtsInput(Some(0))
    \/ AnimationFrame

SpecFold == Init /\ [][NextFold]_vars

\* Lines 811-827 at the first iteration for the target (x, y): the
\* residual at (u, v) = (0.5, 0.5) is half a pixel or more and the
\* determinant of the two gradients vanishes.
DegenerateAtStart(st, x, y) ==
    LET outW == st.outputWidth
        outH == st.outputHeight
        at(u, v) == transformPoint(u * outW, v * outH, st.corners,
                                   st.edgeMidpoints, st.edgePointArrays,
                                   st.edgeArcTables, outW, outH)
        pt  == at(Q \div 2, Q \div 2)
        ptU == at(Q \div 2 + (Q \div 1000), Q \div 2)
        ptV == at(Q \div 2, Q \div 2 + (Q \div 1000))
    IN  /\ ~(Abs(x - pt.x) < Q \div 2 /\ Abs(y - pt.y) < Q \div 2)
        /\ FMul4((ptU.x - pt.x) * 1000, (ptV.y - pt.y) * 1000)
             - FMul4((ptU.y - pt.y) * 1000, (ptV.x - pt.x) * 1000) = 0

\* The pointer is free over a grid whose inverse map meets a degenerate
\* Jacobian for the upper left pixel.
DegenerateQuery ==
    /\ uploadedImage # NULL
    /\ ~Held
    /\ corners # NULL
    /\ edgeMidpoints # NULL
    /\ showGrid
    /\ outputWidth >= 1
    /\ outputHeight >= 1
    /\ DegenerateAtStart(probed(State), getCanvasCoords(State, Origin).x,
                         getCanvasCoords(State, Origin).y)

\* C19 as stated: where the inverse map meets a degenerate Jacobian for the
\* point under the pointer, getCellAtPoint returns no cell for it and a
\* press of the left button there leaves every cell of the grid as it was.
DegenerateIsMiss ==
    DegenerateQuery =>
        /\ getCellAtPoint(probed(State),
                          getCanvasCoords(State, Origin)) = NULL
        /\ handleMouseDown(State, Origin, FALSE).cellStates = cellStates

(***************************************************************************)
(* The rectifier over a boundary whose top edge dips (lines 848-941)       *)
(***************************************************************************)
\* Canvas positions of the pointer: the left end of image row 22, where a
\* selection starts and its upper left corner is grabbed, and the point
\* of the left border that the corner is dragged to.
RowStart == Pt(0, Real(22))
Lowered == Pt(0, Real(40))

\* A boundary is selected from RowStart to the lower right pixel for a grid
\* of one cell, its upper left corner is dragged down the left border, and
\* runs are made.
NextDip ==
    \/ \E img \in Images : Upload(img)
    \/ MouseDown(RowStart)
    \/ \E p \in {Corner, Lowered} : Drag(p)
    \/ MouseUp
    \/ ClickAutoDetect
    \/ WidthInput(Some(1))
    \/ HeightInput(Some(1))
    \/ AnimationFrame

SpecDip == Init /\ [][NextDip]_vars

\* Lines 917-927: the image pixel that pixel i (from 1, row by row) of the
\* rectified raster is mapped to, <<Math.floor(pt.x), Math.floor(pt.y)>>.
MappedPixel(st, i) ==
    LET pt == transformPoint(
                  Ratio((i - 1) % (st.outputWidth * cellPx), cellPx),
                  Ratio((i - 1) \div (st.outputWidth * cellPx), cellPx),
                  st.corners, st.edgeMidpoints, st.edgePointArrays,
                  st.edgeArcTables, st.outputWidth, st.outputHeight)
    IN  <<Floor(pt.x), Floor(pt.y)>>

\* The pixel is one of the source image (the canvas has its size).
InsideImage(st, pixel) ==
    /\ pixel[1] >= 0 /\ pixel[1] < The(st.canvas).width
    /\ pixel[2] >= 0 /\ pixel[2] < The(st.canvas).height

\* Lines 1310-1320: the state in which a run calls
\* createRectifiedGrayscale, the pixel data read again where they are
\* dirty and the tables ensured.
Rectifying(st) ==
    transformed(IF \/ st.selectionPixelsDirty
                   \/ st.selectionPixelData = NULL
                   \/ st.selectionBounds = NULL
                THEN rebuildSelectionPixelData(st)
                ELSE st)

\* A click of Auto-Detect now rectifies a raster.
RunRectifies ==
    /\ uploadedImage # NULL
    /\ canvas # NULL
    /\ corners # NULL
    /\ edgeMidpoints # NULL
    /\ ~Held
    /\ outputWidth >= 1
    /\ outputHeight >= 1
    /\ LET st == Rectifying(State)
       IN  st.selectionPixelData # NULL /\ st.selectionBounds # NULL

\* The raster createRectifiedGrayscale returns in the state st.
RasterOf(st) == createRectifiedGrayscale(st, st.outputWidth, st.outputHeight)

\* C20 as stated: the raster a run rectifies has W * cellPx by H * cellPx
\* pixels; each pixel whose mapped image pixel lies inside the source image
\* holds that image pixel's (R + G + B) / 3, and a pixel is 128 only where
\* the mapped image pixel lies outside the source image.
GrayOnlyOutsideImage ==
    RunRectifies =>
        LET st == Rectifying(State)
            rect == RasterOf(st)
        IN  /\ rect.width = outputWidth * cellPx
            /\ rect.height = outputHeight * cellPx
            /\ Len(rect.data) = outputWidth * cellPx * outputHeight * cellPx
            /\ \A i \in 1..Len(rect.data) :
                   LET pixel == MappedPixel(st, i)
                   IN  IF InsideImage(st, pixel)
                       THEN rect.data[i] = Pixel(The(uploadedImage),
                                                 pixel[1], pixel[2])
                       ELSE rect.data[i] = 128

(***************************************************************************)
(* SpecFill: interpolateMissingPositions over the peaks a suppression can  *)
(* leave (lines 1169-1246)                                                 *)
(***************************************************************************)
\* Bins of accepted peaks: local maxima are bins 1..histSize - 2.
FillBins == {1, 3, 7, 12, 15, 24, 28, 38}

\* Numbers of expected positions; the extent is cellPx pixels for each.
FillCounts == {3, 4}

\* The ascending sequence of a set of integers.
RECURSIVE Ascending(_)
Ascending(s) ==
    IF s = {} THEN <<>>
    ELSE LET least == CHOOSE m \in s : \A n \in s : m <= n
         IN  <<Real(least)>> \o Ascending(s \ {least})

\* What findPeaks hands over (lines 1158-1165): fewer than numExpected
\* bins of the extent, ascending, pairwise at least minSeparation * 0.5
\* apart.
Detections(numExpected) ==
    {Ascending(s) : s \in {t \in SUBSET FillBins :
                              /\ Cardinality(t) < numExpected
                              /\ \A b \in t : b < numExpected * cellPx - 1
                              /\ \A a \in t, b \in t :
                                     a # b => 2 * Real(Abs(a - b)) >= MinSeparation}}

InitFill ==
    /\ \E n \in FillCounts :
           /\ Constructed(n, 1, 75, 7, 50)
           /\ \E detected \in Detections(n) :
                  mapped = Some([detected |-> detected, filled |-> FALSE,
                                 result |-> <<>>])
    /\ blobs = <<>>
    /\ rectified = NULL
    /\ runs = <<>>

\* interpolateMissingPositions(detected, outputWidth, outputWidth * cellPx)
FillDetected ==
    /\ ~The(mapped).filled
    /\ mapped' = Some([The(mapped) EXCEPT
                          !.filled = TRUE,
                          !.result = interpolateMissingPositions(
                                         The(mapped).detected, outputWidth,
                                         outputWidth * cellPx)])
    /\ MapUnchanged
    /\ UNCHANGED <<edgeArcTables, edgePointArrays, edgeArcTablesDirty>>

SpecFill == InitFill /\ [][FillDetected]_vars

\* round(pos / spacing - 0.5) clamped to 0..n - 1, for spacing = cellPx:
\* the index whose band [idx * spacing, (idx + 1) * spacing) holds pos.
SnapIndex(pos, n) == Max(0, Min(n - 1, Round(pos \div cellPx - (Q \div 2))))

\* The detected positions snapped to index idx.
SnappedTo(detected, idx, n) ==
    {detected[k] : k \in {j \in DOMAIN detected : SnapIndex(detected[j], n) = idx}}

\* (idx + 0.5) * spacing
IdealAt(idx) == Real(idx) * cellPx + (Q \div 2) * cellPx

\* The indices that hold a detection.
Matched(detected, n) == {idx \in 0..(n - 1) : SnappedTo(detected, idx, n) # {}}

\* Entry i (from 0) of the result r is as C21 states it.
FilledAsStated(r, detected, n, i) ==
    LET below == {p \in Matched(detected, n) : p < i}
        above == {p \in Matched(detected, n) : p > i}
        p == CHOOSE j \in below : \A m \in below : m <= j
        q == CHOOSE j \in above : \A m \in above : j <= m
    IN  IF i \in Matched(detected, n)
        THEN /\ r[i + 1] \in SnappedTo(detected, i, n)
             /\ \A pos \in SnappedTo(detected, i, n) :
                    Abs(r[i + 1] - IdealAt(i)) <= Abs(pos - IdealAt(i))
        ELSE IF below # {} /\ above # {}
        THEN Abs((r[i + 1] - r[p + 1]) * (q - p)
                   - (i - p) * (r[q + 1] - r[p + 1])) <= Q \div 5000
        ELSE IF below # {}
        THEN r[i + 1] = r[p + 1] + (i - p) * Real(cellPx)
        ELSE IF above # {}
        THEN r[i + 1] = r[q + 1] - (q - i) * Real(cellPx)
        ELSE r[i + 1] = IdealAt(i)

\* C21: for fewer than N accepted peaks, interpolateMissingPositions returns
\* N positions; an index some detection snaps to holds the one of them
\* nearest to (idx + 0.5) * spacing; any other index holds the linear
\* interpolation between the nearest matched indices on both sides, or the
\* nearest matched position shifted by the index difference times the
\* spacing.
FilledPositions ==
    (mapped # NULL /\ The(mapped).filled) =>
        /\ Len(The(mapped).result) = outputWidth
        /\ \A i \in 0..(outputWidth - 1) :
               FilledAsStated(The(mapped).result, The(mapped).detected,
                              outputWidth, i)

\* Bins 1 and 7 collide at index 0, where 7 is kept; index 1 is interpolated
\* between 7 and 28 and index 3 extrapolated from 28.
FilledPositionsWitness ==
    /\ mapped # NULL
    /\ The(mapped).filled
    /\ The(mapped).detected = <<Real(1), Real(7), Real(28)>>
    /\ The(mapped).result
         = <<Real(7), Real(17) + Q \div 2, Real(28), Real(38)>>

(***************************************************************************)
(* SpecPeaks: the candidates and the suppression of findPeaks (lines       *)
(* 1123-1163) for one to three centroids on an axis                        *)
(***************************************************************************)
PeakCounts == {2, 3}

\* Centroids, in raster pixels: inside the first and the last bin of an
\* axis of two cells, and between.
PeakXs == {3 * (Q \div 10), Real(5), Real(9), Real(11), Real(16),
           Real(19) + 4 * (Q \div 10), Real(25) + (Q \div 2)}

\* The centroids of one to three blobs of a raster of n cells.
Centroids(n) ==
    LET xs == {x \in PeakXs : x <= Real(n * cellPx) - (Q \div 2)}
    IN  {<<x>> : x \in xs} \cup {<<x, y>> : x \in xs, y \in xs}
          \cup {<<x, y, z>> : x \in xs, y \in xs, z \in xs}

InitPeaks ==
    /\ \E n \in PeakCounts :
           /\ Constructed(n, 1, 75, 7, 50)
           /\ \E positions \in Centroids(n) :
                  mapped = Some([positions |-> positions, found |-> FALSE,
                                 histogram |-> <<>>, peaks |-> <<>>,
                                 selected |-> <<>>, result |-> <<>>])
    /\ blobs = <<>>
    /\ rectified = NULL
    /\ runs = <<>>

\* Lines 1123-1163 for the histogram and the sorted candidates.
SuppressedFrom(histogram, peaks) ==
    [histogram |-> histogram,
     peaks     |-> peaks,
     selected  |-> Suppress(peaks, 1, <<>>, outputWidth, MinSeparation)]

CandidatesOf(histogram) ==
    SuppressedFrom(histogram,
                   SortByStrength(LocalMaxima(histogram, outputWidth * cellPx,
                                              1, <<>>)))

\* findPeaks(positions, outputWidth * cellPx, outputWidth, MinSeparation),
\* its histogram, candidates and accepted peaks kept.
FindPeaks ==
    /\ ~The(mapped).found
    /\ \E c \in {CandidatesOf(Histogram(The(mapped).positions,
                                        outputWidth * cellPx,
                                        Ceil(3 * FMul(MinSeparation,
                                                      (3 * Q) \div 10))))} :
           mapped' = Some([The(mapped) EXCEPT
                              !.found = TRUE,
                              !.histogram = c.histogram,
                              !.peaks = c.peaks,
                              !.selected = c.selected,
                              !.result = findPeaks(The(mapped).positions,
                                                   outputWidth * cellPx,
                                                   outputWidth,
                                                   MinSeparation)])
    /\ MapUnchanged
    /\ UNCHANGED <<edgeArcTables, edgePointArrays, edgeArcTablesDirty>>

SpecPeaks == InitPeaks /\ [][FindPeaks]_vars

\* Bin b of the histogram h is a local maximum: above the bin before it and
\* not below the bin after it, where there is one.
LocalMaximum(h, b) ==
    /\ (b - 1) \in DOMAIN h => h[b] > h[b - 1]
    /\ (b + 1) \in DOMAIN h => h[b] >= h[b + 1]

\* C22 as stated: the candidates of findPeaks are all the bins of the
\* smoothed histogram, the first and the last included, that are a local
\* maximum with a value above 0.01, in the order of descending value.
EveryMaximumCollected ==
    (mapped # NULL /\ The(mapped).found) =>
        /\ {The(mapped).peaks[k].pos : k \in DOMAIN The(mapped).peaks}
             = {b \in DOMAIN The(mapped).histogram :
                   /\ LocalMaximum(The(mapped).histogram, b)
                   /\ The(mapped).histogram[b] > Q \div 100}
        /\ \A k \in DOMAIN The(mapped).peaks :
               /\ The(mapped).peaks[k].value
                    = The(mapped).histogram[The(mapped).peaks[k].pos]
               /\ k > 1 => The(mapped).peaks[k - 1].value
                             >= The(mapped).peaks[k].value

\* The candidates considered before candidate k that were accepted.
AcceptedBefore(peaks, selected, k) ==
    {j \in 1..(k - 1) : \E m \in DOMAIN selected : selected[m] = peaks[j].pos}

\* C23: the accepted peaks are candidates, at most N, pairwise at least
\* 0.5 * sep apart; a candidate is left out only if an accepted candidate
\* considered before it (so at least as strong) is nearer than 0.5 * sep or
\* N candidates had been accepted before it.  Of three candidates at 10, 12
\* and 14 in this order the second is left out and the third accepted.
SuppressionKeepsApart ==
    /\ Suppress(<<[pos |-> 10, value |-> 3 * Q], [pos |-> 12, value |-> 2 * Q],
                  [pos |-> 14, value |-> Q]>>, 1, <<>>, 3, MinSeparation)
         = <<10, 14>>
    /\ (mapped # NULL /\ The(mapped).found) =>
         LET peaks == The(mapped).peaks
             selected == The(mapped).selected
         IN  /\ Len(selected) <= outputWidth
             /\ \A m \in DOMAIN selected :
                    \E k \in DOMAIN peaks : peaks[k].pos = selected[m]
             /\ \A m \in DOMAIN selected, n \in DOMAIN selected :
                    m # n => 2 * Real(Abs(selected[m] - selected[n]))
                                >= MinSeparation
             /\ \A k \in DOMAIN peaks :
                    (\A m \in DOMAIN selected : selected[m] # peaks[k].pos)
                      => \/ \E j \in AcceptedBefore(peaks, selected, k) :
                                /\ 2 * Real(Abs(peaks[j].pos - peaks[k].pos))
                                     < MinSeparation
                                /\ peaks[j].value >= peaks[k].value
                         \/ Cardinality(AcceptedBefore(peaks, selected, k))
                              >= outputWidth

\* Three candidates for two expected positions: the two strongest were
\* accepted and the third left out.
SuppressionKeepsApartWitness ==
    /\ mapped # NULL
    /\ The(mapped).found
    /\ outputWidth = 2
    /\ Len(The(mapped).peaks) = 3
    /\ Len(The(mapped).selected) = 2
    /\ The(mapped).selected
         = <<The(mapped).peaks[1].pos, The(mapped).peaks[2].pos>>

(***************************************************************************)
(* SpecFilter: filterBlobs over blobs at the bounds of the area band and   *)
(* of the aspect ratio (lines 1093-1110)                                   *)
(***************************************************************************)
FilterPunchSizes == {20, 29, 40, 57}

\* Bounding boxes <<w, h>>: aspect 3, 1, 5, 41/8, 1 and 5.
FilterBoxes == {<<1, 3>>, <<2, 2>>, <<8, 40>>, <<8, 41>>, <<24, 24>>, <<40, 8>>}

\* Areas at and next to the bounds 0.15 * expected and 5 * expected for
\* expected = cellPx^2 * percent / 100.
FilterAreas(percent) ==
    LET expected == (cellPx * cellPx * percent) \div 100
    IN  {(15 * expected) \div 100 - 1 + d : d \in {0, 1, 2}}
          \cup {5 * expected + d : d \in {-1, 0, 1}}

\* A blob of the labeller with the bounding box from (0, 0): its pixels
\* fill a part of the box that spans it.
BoxedBlob(area, box) ==
    [area |-> area, minX |-> 0, maxX |-> box[1] - 1,
     minY |-> 0, maxY |-> box[2] - 1,
     centerX |-> Real(box[1] - 1) \div 2, centerY |-> Real(box[2] - 1) \div 2]

FilterBlobs(percent) ==
    {BoxedBlob(area, box) : area \in FilterAreas(percent), box \in FilterBoxes}

\* The blobs a labelling can yield: between the longer side and the whole
\* box in area.
Labelled(percent) ==
    {b \in FilterBlobs(percent) :
        /\ b.area >= Max(b.maxX + 1, b.maxY + 1)
        /\ b.area <= (b.maxX + 1) * (b.maxY + 1)}

InitFilter ==
    /\ \E percent \in FilterPunchSizes :
           /\ Constructed(4, 5, 75, 7, percent)
           /\ \E a \in Labelled(percent), b \in Labelled(percent) :
                  \E labelled \in {<<a>>, <<a, b>>} :
                      mapped = Some([blobs |-> labelled, filtered |-> FALSE,
                                     kept |-> <<>>])
    /\ blobs = <<>>
    /\ rectified = NULL
    /\ runs = <<>>

\* filterBlobs(blobs, cellPx)
FilterLabelled ==
    /\ ~The(mapped).filtered
    /\ mapped' = Some([The(mapped) EXCEPT
                          !.filtered = TRUE,
                          !.kept = filterBlobs(The(mapped).blobs, cellPx,
                                               blobSizePercent)])
    /\ MapUnchanged
    /\ UNCHANGED <<edgeArcTables, edgePointArrays, edgeArcTablesDirty>>

SpecFilter == InitFilter /\ [][FilterLabelled]_vars

\* 0.15 * expected <= area <= 5 * expected and the longer side of the
\* inclusive bounding box at most 5 times the shorter, in whole numbers.
InBandAndAspect(blob) ==
    /\ 15 * cellPx * cellPx * blobSizePercent <= 10000 * blob.area
    /\ 100 * blob.area <= 5 * cellPx * cellPx * blobSizePercent
    /\ Max(blob.maxX - blob.minX + 1, blob.maxY - blob.minY + 1)
         <= 5 * Max(1, Min(blob.maxX - blob.minX + 1,
                           blob.maxY - blob.minY + 1))

\* The entries of a sequence that satisfy InBandAndAspect, in order.
RECURSIVE InBandOf(_)
InBandOf(s) ==
    IF s = <<>> THEN <<>>
    ELSE (IF InBandAndAspect(Head(s)) THEN <<Head(s)>> ELSE <<>>)
         \o InBandOf(Tail(s))

\* C24 as stated: filterBlobs returns, unchanged and in order, exactly the
\* blobs with 0.15 * expected <= area <= 5 * expected and aspect <= 5, the
\* blobs on a bound included.
KeptIffInBand ==
    (mapped # NULL /\ The(mapped).filtered) =>
        The(mapped).kept = InBandOf(The(mapped).blobs)

(***************************************************************************)
(* SpecEdit: the boundary under selection, corner and midpoint drags,      *)
(* Edge Pts changes, uploads and resets                                    *)
(***************************************************************************)
\* Canvas positions where the left button goes down: the upper left pixel
\* and a point half a pixel from the middle of the top border.  What the
\* pointer holds is dragged to the lower right pixel.
EditPositions == {Origin, Pt(Real(75), 0)}

NextEdit ==
    \/ \E img \in Images : Upload(img)
    \/ \E p \in EditPositions : MouseDown(p)
    \/ DragFreely(Corner)
    \/ MouseUp
    \/ \E n \in {Some(0), Some(1), Some(2), Some(6)} : EdgePtsInput(n)
    \/ ClickReset
    \/ WidthInput(Some(1))
    \/ HeightInput(Some(1))
    \/ AnimationFrame

SpecEdit == Init /\ [][NextEdit]_vars

\* C25 as stated: whenever a boundary exists its four corners are pairwise
\* distinct and each of its four edges has between 0 and 5 midpoints.
BoundaryWellFormed ==
    corners # NULL =>
        /\ Len(corners) = 4
        /\ \A i \in 1..4, j \in 1..4 : i # j => corners[i] # corners[j]
        /\ edgeMidpoints # NULL
        /\ Len(edgeMidpoints) = 4
        /\ \A e \in 1..4 : Len(edgeMidpoints[e]) \in 0..5

(***************************************************************************)
(* The arc-length tables and the boundary they were built from             *)
(***************************************************************************)

\* A run that got as far as createRectifiedGrayscale (line 1320): the pixel
\* data of the selection were there at line 1318.
RunRectified ==
    /\ ClickAutoDetect
    /\ edgeMidpoints # NULL
    /\ selectionPixelData' # NULL
    /\ selectionBounds' # NULL

\* C26: the arc-length tables and edge point arrays that transformPoint
\* reads in a run are those of the current corners and midpoints, whatever
\* was done before the run and whether or not the deferred setupCanvas
\* callback has run.
TablesOfCurrentBoundary ==
    [][RunRectified
         => /\ edgePointArrays' = EdgePoints(corners, edgeMidpoints)
            /\ edgeArcTables' = ArcTables(edgePointArrays')]_vars

(***************************************************************************)
(* The stored grid and the grid dimensions                                 *)
(***************************************************************************)

\* SpecGrid: an image is uploaded, a boundary selected, edited and reset,
\* runs are made, cells are toggled, and numbers are typed into Grid Width
\* and Grid Height; a minus sign typed before the 1 of Grid Width makes
\* its value -1.  Grid Height is set first, which keeps the grids of the
\* runs within MaxCells.
Centre == Pt(Real(75), Real(55))

NextGrid ==
    \/ \E img \in Images : Upload(img)
    \/ \E p \in {Origin, Centre} : MouseDown(p)
    \/ Drag(Corner)
    \/ MouseUp
    \/ ClickAutoDetect
    \/ ClickReset
    \/ \E n \in {Some(1), Some(-1)} :
           outputHeight <= MaxCells /\ WidthInput(n)
    \/ HeightInput(Some(1))
    \/ AnimationFrame

SpecGrid == Init /\ [][NextGrid]_vars

\* C27: the stored grid is empty or has outputHeight rows of outputWidth
\* cells each, and the grid is shown only while a boundary exists.
GridMatchesDimensions ==
    /\ \/ cellStates = <<>>
       \/ /\ Len(cellStates) = outputHeight
          /\ \A r \in DOMAIN cellStates : Len(cellStates[r]) = outputWidth
    /\ showGrid => corners # NULL

(***************************************************************************)
(* The pointer modes                                                       *)
(***************************************************************************)

\* A mousedown while a button may already be down: the event of another
\* button (the middle button when pan is true) arrives before the mouseup
\* of the first.
Press(p, pan) ==
    /\ OverCanvas
    /\ Ready
    /\ Taken(handleMouseDown(State, p, pan))

\* SpecPointer: mousedown, mousemove, mouseup and mouseleave events in any
\* order over an uploaded image.
NextPointer ==
    \/ \E img \in Images : Upload(img)
    \/ \E pan \in BOOLEAN : Press(Origin, pan)
    \/ Drag(Corner)
    \/ MouseUp
    \/ MouseLeave
    \/ WidthInput(Some(1))
    \/ HeightInput(Some(1))
    \/ AnimationFrame

SpecPointer == Init /\ [][NextPointer]_vars

\* The pointer modes that are active.
ActiveModes ==
    {m \in {"pan", "corner", "midpoint", "selection"} :
        \/ m = "pan" /\ isPanning
        \/ m = "corner" /\ draggingCornerIndex # NULL
        \/ m = "midpoint" /\ draggingMidpointInfo # NULL
        \/ m = "selection" /\ isDragging}

NearBy == Pt(Real(8), Real(8))

NextBoundary ==
    \/ \E img \in Images : Upload(img)
    \/ \E p \in {Origin, Centre} : Press(p, FALSE)
    \/ \E p \in {NearBy, Corner} : Drag(p)
    \/ MouseUp
    \/ MouseLeave
    \/ ClickReset
    \/ \E n \in {Some(0), Some(2)} : EdgePtsInput(n)
    \/ WidthInput(Some(1))
    \/ HeightInput(Some(1))
    \/ AnimationFrame

SpecBoundary == Init /\ [][NextBoundary]_vars

\* The points from, ps[1], ..., ps[n], to lie on the straight edge from
\* from to to at equal distances, to one unit of the fixed-point
\* resolution.
EvenlySpaced(from, ps, to) ==
    LET pts == <<from>> \o ps \o <<to>>
        gapX(i) == pts[i + 1].x - pts[i].x
        gapY(i) == pts[i + 1].y - pts[i].y
    IN  \A i, j \in 1..(Len(pts) - 1) :
            /\ Abs(gapX(i) - gapX(j)) <= 1
            /\ Abs(gapY(i) - gapY(j)) <= 1

\* The boundary is the rectangle of the box, TL, TR, BR, BL, with n
\* evenly spaced midpoints on each of the edges top, right, bottom, left.
RectangleOf(box, cs, mids, n) ==
    /\ cs = << Pt(box.x, box.y), Pt(box.x + box.width, box.y),
               Pt(box.x + box.width, box.y + box.height),
               Pt(box.x, box.y + box.height) >>
    /\ mids # NULL
    /\ \A e \in 1..4 : Len(mids[e]) = n
    /\ EvenlySpaced(cs[1], mids[1], cs[2])
    /\ EvenlySpaced(cs[2], mids[2], cs[3])
    /\ EvenlySpaced(cs[4], mids[3], cs[3])
    /\ EvenlySpaced(cs[1], mids[4], cs[4])

SingleColumnAxes == {<<Real(1)>>, <<Real(3), Real(13)>>}
SingleRowAxes == {<<Real(1)>>, <<Real(5), Real(15)>>}

\* Centroids, in raster pixels: on the centre at 1, a millionth inside and
\* 0.6 pixels right of it, 0.6 pixels left of it, and 4 pixels (0.4 cells)
\* off; in doubles 1.6 - 1 is above and 1 - 0.4 is equal to the 1 * 0.6
\* of line 1293, as in exact arithmetic neither is below it.
SingleXs == {Real(1), Real(1) + 6 * (Q \div 10) - 1, Real(1) + 6 * (Q \div 10),
             Real(1) - 6 * (Q \div 10), Real(5)}
SingleYs == {Real(1), Real(1) + 6 * (Q \div 10), Real(14)}

InitSingle ==
    /\ \E cols \in SingleColumnAxes, rows \in SingleRowAxes :
           /\ Len(cols) = 1 \/ Len(rows) = 1
           /\ Constructed(Len(cols), Len(rows), 75, 7, 50)
           /\ mapped = Some([colPositions |-> cols, rowPositions |-> rows,
                             assigned |-> FALSE, cellStates |-> <<>>])
    /\ blobs = <<>>
    /\ rectified = NULL
    /\ runs = <<>>

NextSingle ==
    \/ \E cx \in SingleXs, cy \in SingleYs : PassToAssign(cx, cy)
    \/ AssignToAxes

SpecSingle == InitSingle /\ [][NextSingle]_vars

\* Strictly within 0.6 pixels of the centre.
NearCentre(center, position) == 10 * Abs(center - position) < 6 * Q

\* C30: on an axis with a single centre the average spacing is 1, and a
\* blob is assigned exactly if its centroid is strictly within 0.6 raster
\* pixels of that centre (and in reach of its nearest centre on the other
\* axis), whatever the cell size.
SingleCentreReach ==
    (mapped # NULL /\ The(mapped).assigned) =>
        LET cols == The(mapped).colPositions
            rows == The(mapped).rowPositions
            cells == The(mapped).cellStates
        IN  /\ Len(cols) = 1 =>
                /\ AvgSpacing(cols) = Q
                /\ \A r \in 1..Len(rows) :
                       cells[r][1]
                         <=> \E k \in DOMAIN blobs :
                              /\ NearCentre(blobs[k].centerX, cols[1])
                              /\ FirstNearest(blobs[k].centerY, rows, r)
                              /\ WithinReach(blobs[k].centerY, rows, r)
            /\ Len(rows) = 1 =>
                /\ AvgSpacing(rows) = Q
                /\ \A c \in 1..Len(cols) :
                       cells[1][c]
                         <=> \E k \in DOMAIN blobs :
                              /\ NearCentre(blobs[k].centerY, rows[1])
                              /\ FirstNearest(blobs[k].centerX, cols, c)
                              /\ WithinReach(blobs[k].centerX, cols, c)

\* Three blobs have been assigned to the single column at 1: the one 4
\* pixels off and the one 0.6 pixels off are left out, the one a millionth
\* nearer punches the cell of the second row.
SingleCentreReachWitness ==
    /\ mapped # NULL
    /\ The(mapped).assigned
    /\ The(mapped).colPositions = <<Real(1)>>
    /\ The(mapped).rowPositions = <<Real(5), Real(15)>>
    /\ Len(blobs) = 3
    /\ blobs[1].centerX = Real(5)
    /\ blobs[2].centerX = Real(1) + 6 * (Q \div 10)
    /\ blobs[3].centerX = Real(1) + 6 * (Q \div 10) - 1
    /\ blobs[1].centerY = Real(1) /\ blobs[2].centerY = Real(1)
    /\ blobs[3].centerY = Real(14)
    /\ The(mapped).cellStates = <<<<FALSE>>, <<TRUE>>>>
=============================================================================
